---------------------------- MODULE Spec2Model ----------------------------
(***************************************************************************)
(* Model of MasterDarkMaker: the grouping engine (FileCombiner /           *)
(* SharedUtils), the calibrator (Calibrator) and the configuration         *)
(* boundary (Preferences, MainWindow tolerance fields).                    *)
(*                                                                         *)
(* Numbers.  Exposures, temperatures and pixel values are modelled as      *)
(* integers.  A grouping tolerance is modelled in hundredths: the stored   *)
(* float t is the integer 100*t (0.05 is 5, 1.0 is 100, 5.0 is 500).  A    *)
(* quotient n/d of the code is never rounded: it is compared as a          *)
(* rational number (RatLeq).                                               *)
(***************************************************************************)
EXTENDS Integers, Sequences, FiniteSets, TLC

VARIABLES
    selected_files,               \* the descriptor list handed to the grouping engine
    group_by_size,                \* data model: grouping flags
    group_by_exposure,
    group_by_temperature,
    exposure_group_tolerance,     \* data model: tolerances, in hundredths
    temperature_group_tolerance,
    pref_exposure_group_tolerance,      \* Preferences (QSettings): stored tolerances
    pref_temperature_group_tolerance,
    field_validity,               \* MainWindow._field_validity of the tolerance fields
    field_background,             \* background colour last set on the tolerance fields
    file_data,                    \* the stack of pixel arrays handed to the calibrator
    directory_files,              \* descriptors of the frames of the auto-calibration directory
    sample_file,                  \* the sample frame of the group being calibrated
    console,                      \* lines given to the console sink
    last_call,                    \* which operation produced `result`
    call_args,                    \* the arguments of that call that are not state
    result,                       \* outcome of the last operation
    ignore_file_type,             \* data model: the ignore-type override
    master_combine_method,        \* data model: the combination method
    min_max_number_clipped_per_end,   \* data model: n of the min/max clip
    output_directory,             \* what is at the path of the group output directory
    session_pc,                   \* where the processing of the session stands
    pending_groups,               \* groups process_groups has still to process
    current_group,                \* the set of files being processed
    session_log,                  \* what the session did, in order
    output_files,                 \* the master files written, in order
    cancel_flag,                  \* SessionController: cancellation requested
    finished_emitted,             \* emissions of CombineThreadWorker.finished
    console_line,                 \* console_line signals emitted and not yet delivered
    emitted_lines,                \* every line the worker emitted, in order
    consoleList,                  \* ConsoleWindow: the items of the console list
    signal_mutex,                 \* ConsoleWindow._signal_mutex: "free" or "locked"
    list_item,                    \* add_to_console: the item of the running execution
    precalibration_type,          \* data model: the kind of precalibration
    precalibration_fixed_path,    \* what is at the path of the fixed calibration file
    precalibration_auto_directory,    \* what is at the path of the auto-calibration directory
    combineSelectedButton,        \* MainWindow: the Combine button (enabled, tool tip)
    qthread,                      \* ConsoleWindow: where the window and its QThread stand
    cancelButton,                 \* ConsoleWindow: the Cancel button is enabled
    closeButton                   \* ConsoleWindow: the Close button is enabled

data_model_vars == <<group_by_size, group_by_exposure, group_by_temperature,
                     exposure_group_tolerance, temperature_group_tolerance>>

configuration_vars == <<pref_exposure_group_tolerance, pref_temperature_group_tolerance,
                        field_validity, field_background>>

auto_directory_vars == <<directory_files, sample_file>>

session_settings_vars == <<ignore_file_type, master_combine_method,
                           min_max_number_clipped_per_end>>

session_vars == <<output_directory, session_pc, pending_groups, current_group,
                  session_log, output_files, cancel_flag, finished_emitted>>

console_window_vars == <<console_line, emitted_lines, consoleList, signal_mutex, list_item>>

main_window_vars == <<precalibration_type, precalibration_fixed_path,
                      precalibration_auto_directory, combineSelectedButton>>

console_button_vars == <<qthread, cancelButton, closeButton>>

vars == <<selected_files, data_model_vars, configuration_vars, file_data,
          auto_directory_vars, console, last_call, call_args, result,
          session_settings_vars, main_window_vars, console_button_vars, session_vars, console_window_vars>>

-----------------------------------------------------------------------------
(* Bounds of the model *)

MaxFiles == 3

\* (x, y, binning) of the frames of the model
SizePool == { <<100, 100, 1>>, <<200, 100, 1>>, <<100, 200, 1>>, <<100, 100, 2>> }
\* exposures are >= 0 seconds
ExposurePool == { 0, 10, 11, 12 }
\* temperatures may be negative
TemperaturePool == { -10, 0, 10, 11, 12 }
\* tolerances inside [0, 1), in hundredths
TolerancePool == { 0, 10 }

-----------------------------------------------------------------------------
(* Generic helpers *)

Abs(n) == IF n < 0 THEN -n ELSE n

Front(s) == SubSeq(s, 1, Len(s) - 1)

Last(s) == s[Len(s)]

RECURSIVE Flatten(_)
Flatten(ss) == IF ss = <<>> THEN <<>> ELSE Head(ss) \o Flatten(Tail(ss))

\* all sequences over S of length 0..n
SeqsUpTo(S, n) == UNION { [1..k -> S] : k \in 0..n }

\* the outcome of a call: a returned value, or the exception it raised
Returned(v) == [raised |-> "none", value |-> v]
Raised(e) == [raised |-> e, value |-> <<>>]

-----------------------------------------------------------------------------
(* FileDescriptor *)

FileDescriptor(name, size, exposure, temperature) ==
    [name |-> name, x |-> size[1], y |-> size[2], binning |-> size[3],
     exposure |-> exposure, temperature |-> temperature, type |-> "DARK"]

\* FileDescriptor(): the blank descriptor
BlankDescriptor == FileDescriptor(0, <<0, 0, 0>>, 0, 0)

\* the composite key (width, height, binning) of a descriptor
get_size_key(d) == <<d.x, d.y, d.binning>>

get_exposure(d) == d.exposure

get_temperature(d) == d.temperature

\* the sort key `sorted(..., key=...)` is given
KeyOf(d, key) ==
    CASE key = "size_key" -> get_size_key(d)
      [] key = "exposure" -> get_exposure(d)
      [] key = "temperature" -> get_temperature(d)

\* k1 < k2 for two keys of the same kind (tuples compare lexicographically)
KeyLess(key, k1, k2) ==
    IF key = "size_key"
    THEN \/ k1[1] < k2[1]
         \/ k1[1] = k2[1] /\ k1[2] < k2[2]
         \/ k1[1] = k2[1] /\ k1[2] = k2[2] /\ k1[3] < k2[3]
    ELSE k1 < k2

\* Python's sorted(): ascending by the key and stable
RECURSIVE InsertSorted(_, _, _)
InsertSorted(s, d, key) ==
    IF s = <<>> THEN <<d>>
    ELSE IF KeyLess(key, KeyOf(d, key), KeyOf(Head(s), key))
         THEN <<d>> \o s
         ELSE <<Head(s)>> \o InsertSorted(Tail(s), d, key)

\* the mutant leaves the list in the order given
sorted_as_given(files, key) == files

RECURSIVE sorted(_, _)
sorted(files, key) ==
    IF files = <<>> THEN <<>>
    ELSE InsertSorted(sorted(Front(files), key), Last(files), key)

\* itertools.groupby: consecutive runs of equal keys, in order
RECURSIVE groupby(_, _)
groupby(s, key) ==
    IF s = <<>> THEN <<>>
    ELSE LET rest == groupby(Tail(s), key)
         IN  IF rest # <<>> /\ KeyOf(Head(rest)[1], key) = KeyOf(Head(s), key)
             THEN << <<Head(s)>> \o Head(rest) >> \o Tail(rest)
             ELSE << <<Head(s)>> >> \o rest

-----------------------------------------------------------------------------
(* SharedUtils.values_same_within_tolerance *)

\* n/d <= tn/td for d # 0 and td > 0, as a comparison of rationals
RatLeq(n, d, tn, td) ==
    IF d > 0 THEN n * td <= tn * d ELSE n * td >= tn * d

\* the mutant divides by the magnitude of the base
values_same_within_tolerance_abs(first_value, second_value, tolerance) ==
    LET difference == Abs(first_value - second_value)
    IN  IF first_value = 0
        THEN IF second_value = 0 THEN TRUE
             ELSE RatLeq(difference, Abs(second_value), tolerance, 100)
        ELSE RatLeq(difference, Abs(first_value), tolerance, 100)

\* the mutant asks for a quotient below the tolerance, not at most the tolerance
values_same_within_tolerance_strict(first_value, second_value, tolerance) ==
    LET difference == Abs(first_value - second_value)
        Below(n, d) == IF d > 0 THEN n * 100 < tolerance * d ELSE n * 100 > tolerance * d
    IN  IF first_value = 0
        THEN IF second_value = 0 THEN TRUE
             ELSE Below(difference, second_value)
        ELSE Below(difference, first_value)

values_same_within_tolerance(first_value, second_value, tolerance) ==
    LET difference == Abs(first_value - second_value)
    IN  IF first_value = 0
        THEN IF second_value = 0 THEN TRUE
             ELSE RatLeq(difference, second_value, tolerance, 100)
        ELSE RatLeq(difference, first_value, tolerance, 100)

-----------------------------------------------------------------------------
(* FileCombiner.get_groups_by_size / _exposure / _temperature              *)
(* (SharedUtils holds the same three functions, line for line)             *)

\* the mutant hands back the whole list as one group, grouped or not
get_groups_by_size_one_group(files, is_grouped) == Returned(<<files>>)

\* the mutant groups the list in the order given, without sorting it
get_groups_by_size_unsorted(files, is_grouped) ==
    IF is_grouped
    THEN Returned(groupby(files, "size_key"))
    ELSE Returned(<<files>>)

get_groups_by_size(files, is_grouped) ==
    IF is_grouped
    THEN Returned(groupby(sorted(files, "size_key"), "size_key"))
    ELSE Returned(<<files>>)

\* the mutant moves the comparison base to every frame it accepts
RECURSIVE scan_groups_previous_base(_, _, _, _, _, _)
scan_groups_previous_base(files_sorted, key, tolerance, current_value, current_list, res) ==
    IF files_sorted = <<>> THEN Append(res, current_list)
    ELSE LET next_file == Head(files_sorted)
             this_value == KeyOf(next_file, key)
         IN  IF values_same_within_tolerance(current_value, this_value, tolerance)
             THEN scan_groups_previous_base(Tail(files_sorted), key, tolerance, this_value,
                                            Append(current_list, next_file), res)
             ELSE scan_groups_previous_base(Tail(files_sorted), key, tolerance, this_value,
                                            <<next_file>>, Append(res, current_list))

\* the mutant forgets the append of the last group after the loop
RECURSIVE scan_groups_no_final_append(_, _, _, _, _, _)
scan_groups_no_final_append(files_sorted, key, tolerance, current_value, current_list, res) ==
    IF files_sorted = <<>> THEN res
    ELSE LET next_file == Head(files_sorted)
             this_value == KeyOf(next_file, key)
         IN  IF values_same_within_tolerance(current_value, this_value, tolerance)
             THEN scan_groups_no_final_append(Tail(files_sorted), key, tolerance, current_value,
                                              Append(current_list, next_file), res)
             ELSE scan_groups_no_final_append(Tail(files_sorted), key, tolerance, this_value,
                                              <<next_file>>, Append(res, current_list))

\* the `for next_file in files_sorted` loop of the two tolerance stages and
\* the append that follows it
RECURSIVE scan_groups(_, _, _, _, _, _)
scan_groups(files_sorted, key, tolerance, current_value, current_list, res) ==
    IF files_sorted = <<>> THEN Append(res, current_list)
    ELSE LET next_file == Head(files_sorted)
             this_value == KeyOf(next_file, key)
         IN  IF values_same_within_tolerance(current_value, this_value, tolerance)
             THEN scan_groups(Tail(files_sorted), key, tolerance, current_value,
                              Append(current_list, next_file), res)
             ELSE scan_groups(Tail(files_sorted), key, tolerance, this_value,
                              <<next_file>>, Append(res, current_list))

\* files_sorted[0] of an empty list raises IndexError
get_groups_by_exposure(files, is_grouped, tolerance) ==
    IF is_grouped
    THEN LET files_sorted == sorted(files, "exposure")
         IN  IF files_sorted = <<>> THEN Raised("IndexError")
             ELSE Returned(scan_groups(files_sorted, "exposure", tolerance,
                                       get_exposure(files_sorted[1]), <<>>, <<>>))
    ELSE Returned(<<files>>)

get_groups_by_temperature(files, is_grouped, tolerance) ==
    IF is_grouped
    THEN LET files_sorted == sorted(files, "temperature")
         IN  IF files_sorted = <<>> THEN Raised("IndexError")
             ELSE Returned(scan_groups(files_sorted, "temperature", tolerance,
                                       get_temperature(files_sorted[1]), <<>>, <<>>))
    ELSE Returned(<<files>>)

-----------------------------------------------------------------------------
(* FileCombiner.process_groups: the three nested loops.  The value of the  *)
(* outcome is the sequence of groups handed to process_one_group, in the   *)
(* order of the calls.                                                     *)

\* for temperature_group in groups_by_temperature: process_one_group(...)
RECURSIVE temperature_groups_loop(_, _)
temperature_groups_loop(groups_by_temperature, done) ==
    IF groups_by_temperature = <<>> THEN Returned(done)
    ELSE temperature_groups_loop(Tail(groups_by_temperature),
                                 Append(done, Head(groups_by_temperature)))

\* for exposure_group in groups_by_exposure
RECURSIVE exposure_groups_loop(_, _, _, _)
exposure_groups_loop(groups_by_exposure, by_temperature, temperature_tolerance, done) ==
    IF groups_by_exposure = <<>> THEN Returned(done)
    ELSE LET g == get_groups_by_temperature(Head(groups_by_exposure), by_temperature,
                                            temperature_tolerance)
         IN  IF g.raised # "none" THEN [raised |-> g.raised, value |-> done]
             ELSE LET r == temperature_groups_loop(g.value, done)
                  IN  IF r.raised # "none" THEN r
                      ELSE exposure_groups_loop(Tail(groups_by_exposure), by_temperature,
                                                temperature_tolerance, r.value)

\* for size_group in groups_by_size; the print of size_group[0] raises
\* IndexError on an empty size group
RECURSIVE size_groups_loop(_, _, _, _, _, _)
size_groups_loop(groups_by_size, by_exposure, exposure_tolerance, by_temperature, temperature_tolerance, done) ==
    IF groups_by_size = <<>> THEN Returned(done)
    ELSE IF Head(groups_by_size) = <<>> THEN [raised |-> "IndexError", value |-> done]
    ELSE LET g == get_groups_by_exposure(Head(groups_by_size), by_exposure, exposure_tolerance)
         IN  IF g.raised # "none" THEN [raised |-> g.raised, value |-> done]
             ELSE LET r == exposure_groups_loop(g.value, by_temperature,
                                                temperature_tolerance, done)
                  IN  IF r.raised # "none" THEN r
                      ELSE size_groups_loop(Tail(groups_by_size), by_exposure,
                                            exposure_tolerance, by_temperature,
                                            temperature_tolerance, r.value)

\* the mutant runs the exposure stage on the whole selection for every size group
nested_groups_whole_selection(files, by_size, by_exposure, exposure_tolerance, by_temperature, temperature_tolerance) ==
    LET g == get_groups_by_size(files, by_size)
    IN  IF g.raised # "none" THEN g
        ELSE size_groups_loop([i \in 1..Len(g.value) |-> files], by_exposure,
                              exposure_tolerance, by_temperature, temperature_tolerance, <<>>)

nested_groups(files, by_size, by_exposure, exposure_tolerance, by_temperature, temperature_tolerance) ==
    LET g == get_groups_by_size(files, by_size)
    IN  IF g.raised # "none" THEN g
        ELSE size_groups_loop(g.value, by_exposure, exposure_tolerance,
                              by_temperature, temperature_tolerance, <<>>)

\* SharedUtils.ensure_directory_exists, by what is found at the path
ensure_directory_exists(found) ==
    CASE found = "directory" -> Returned(TRUE)
      [] found = "file" -> Returned(FALSE)
      [] found = "nothing" -> Returned(TRUE)            \* os.mkdir made it
      [] found = "nothing_mkdir_fails" -> Raised("OSError")

FoundAtPath == { "directory", "file", "nothing", "nothing_mkdir_fails" }

-----------------------------------------------------------------------------
(* State shared by the specifications *)

\* Preferences defaults: exposure tolerance 0.05, temperature tolerance 0.10;
\* no tolerance field edited yet
ConfigurationAtStart ==
    /\ pref_exposure_group_tolerance = 5
    /\ pref_temperature_group_tolerance = 10
    /\ field_validity = [exposureGroupTolerance |-> "untested",
                         temperatureGroupTolerance |-> "untested"]
    /\ field_background = [exposureGroupTolerance |-> "default",
                           temperatureGroupTolerance |-> "default"]

\* no session started: nothing processed, nothing written
NoSession ==
    /\ session_pc = "idle"
    /\ pending_groups = <<>>
    /\ current_group = <<>>
    /\ session_log = <<>>
    /\ output_files = <<>>
    /\ cancel_flag = FALSE
    /\ finished_emitted = 0

\* no console line emitted, the console list empty, the mutex free
ConsoleWindowAtStart ==
    /\ console_line = <<>>
    /\ emitted_lines = <<>>
    /\ consoleList = <<>>
    /\ signal_mutex = "free"
    /\ list_item = <<>>

\* the settings of a session that the grouping and calibration calls do not read
SessionSettingsAtStart ==
    /\ ignore_file_type = FALSE
    /\ master_combine_method = "COMBINE_MEAN"
    /\ min_max_number_clipped_per_end = 1
    /\ output_directory = "directory"

\* no precalibration chosen; the Combine button as enable_buttons leaves it
\* without a selection
MainWindowAtStart ==
    /\ precalibration_type = "CALIBRATION_NONE"
    /\ precalibration_fixed_path = [is_file |-> FALSE, size |-> <<0, 0, 0>>]
    /\ precalibration_auto_directory = [is_dir |-> FALSE]
    /\ combineSelectedButton = [enabled |-> FALSE,
                                toolTip |-> "Disabled because no files are selected"]

\* the console window is open and its worker thread runs
ConsoleButtonsAtStart ==
    /\ qthread = "running"
    /\ cancelButton = TRUE
    /\ closeButton = FALSE

NothingCalled ==
    /\ console = <<>>
    /\ last_call = "none"
    /\ call_args = <<>>
    /\ result = Returned(<<>>)
    /\ NoSession
    /\ ConsoleWindowAtStart
    /\ MainWindowAtStart
    /\ ConsoleButtonsAtStart

-----------------------------------------------------------------------------
(* The grouping engine applied to bounded inputs *)

\* the descriptors of a selection: one file (one path) per position
MakeFiles(attrs) ==
    [i \in 1..Len(attrs) |-> FileDescriptor(i, attrs[i][1], attrs[i][2], attrs[i][3])]

\* selections whose frames differ in one attribute (up to MaxFiles frames)
SingleAttributePools ==
    { SizePool \X {10} \X {0},
      {<<100, 100, 1>>} \X ExposurePool \X {0},
      {<<100, 100, 1>>} \X {10} \X TemperaturePool }

\* selections whose frames differ in every attribute (up to MaxNestedFiles frames)
MaxNestedFiles == 2

NestedPool == {<<100, 100, 1>>, <<100, 100, 2>>} \X {10, 12} \X {-10, 10}

Selections ==
    { MakeFiles(a) : a \in UNION { SeqsUpTo(P, MaxFiles) : P \in SingleAttributePools }
                           \cup SeqsUpTo(NestedPool, MaxNestedFiles) }

InitGrouping ==
    /\ selected_files \in Selections
    /\ group_by_size \in BOOLEAN
    /\ group_by_exposure \in BOOLEAN
    /\ group_by_temperature \in BOOLEAN
    /\ exposure_group_tolerance \in TolerancePool
    /\ temperature_group_tolerance \in TolerancePool
    /\ ConfigurationAtStart
    /\ file_data = <<>>
    /\ directory_files = <<>>
    /\ sample_file = BlankDescriptor
    /\ SessionSettingsAtStart
    /\ NothingCalled

\* a grouping call reads the selection and the data model and changes neither
UnchangedInputs ==
    /\ call_args' = <<>>
    /\ UNCHANGED <<selected_files, data_model_vars, configuration_vars, file_data,
                   auto_directory_vars, console,
                session_settings_vars, main_window_vars, console_button_vars, session_vars, console_window_vars>>

CallGetGroupsBySize ==
    /\ last_call' = "get_groups_by_size"
    /\ result' = get_groups_by_size(selected_files, group_by_size)
    /\ UnchangedInputs

CallGetGroupsByExposure ==
    /\ last_call' = "get_groups_by_exposure"
    /\ result' = get_groups_by_exposure(selected_files, group_by_exposure,
                                        exposure_group_tolerance)
    /\ UnchangedInputs

CallGetGroupsByTemperature ==
    /\ last_call' = "get_groups_by_temperature"
    /\ result' = get_groups_by_temperature(selected_files, group_by_temperature,
                                           temperature_group_tolerance)
    /\ UnchangedInputs

\* FileCombiner.process_groups.  Its callers hand it a non-empty selection
\* (the Combine button is disabled without one).
process_groups(found_at_output_directory) ==
    /\ Len(selected_files) > 0
    /\ last_call' = "process_groups"
    /\ LET made == ensure_directory_exists(found_at_output_directory)
       IN  result' =
             IF made.raised # "none" THEN Raised(made.raised)
             ELSE IF ~made.value THEN Raised("NoGroupOutputDirectory")
             ELSE nested_groups(selected_files, group_by_size,
                                group_by_exposure, exposure_group_tolerance,
                                group_by_temperature, temperature_group_tolerance)
    /\ UnchangedInputs

ProcessGroups == \E found \in FoundAtPath : process_groups(found)

NextGrouping ==
    \/ CallGetGroupsBySize
    \/ CallGetGroupsByExposure
    \/ CallGetGroupsByTemperature
    \/ ProcessGroups

SpecGrouping == InitGrouping /\ [][NextGrouping]_vars

-----------------------------------------------------------------------------
(* Claims on the grouping engine *)

Range(s) == { s[i] : i \in 1..Len(s) }

Count(d, s) == Cardinality({ i \in 1..Len(s) : s[i] = d })

SameMultiset(s, t) == \A d \in Range(s) \cup Range(t) : Count(d, s) = Count(d, t)

GroupingDone == last_call = "process_groups" /\ result.raised \notin {"NoGroupOutputDirectory", "OSError"}

SameWithinTolerance(a, b, t) ==
    IF a # 0 THEN RatLeq(Abs(a - b), a, t, 100)
    ELSE IF b # 0 THEN RatLeq(Abs(a - b), b, t, 100)
    ELSE TRUE

ToleranceStage ==
    \/ last_call = "get_groups_by_exposure" /\ group_by_exposure
    \/ last_call = "get_groups_by_temperature" /\ group_by_temperature

StageKey == IF last_call = "get_groups_by_exposure" THEN "exposure" ELSE "temperature"

StageTolerance ==
    IF last_call = "get_groups_by_exposure" THEN exposure_group_tolerance
    ELSE temperature_group_tolerance

\* C2: the tolerance stages scan the ascending list once; a frame starts a new
\* group exactly when its value is not same-within-tolerance to the value of
\* the first frame of the current group.
C2_BaseIsFirstOfGroup ==
    (ToleranceStage /\ result.raised = "none") =>
        LET G == result.value
            v(d) == KeyOf(d, StageKey)
        IN  /\ Flatten(G) = sorted(selected_files, StageKey)
            /\ \A k \in 1..Len(G) :
                  /\ G[k] # <<>>
                  /\ \A i \in 1..Len(G[k]) :
                        SameWithinTolerance(v(G[k][1]), v(G[k][i]), StageTolerance)
                  /\ k > 1 => ~SameWithinTolerance(v(G[k-1][1]), v(G[k][1]), StageTolerance)

\* a frame that is within tolerance of the previous frame, not of the first
\* frame of its group, and so starts a new group
C2_Witness ==
    /\ ToleranceStage /\ result.raised = "none"
    /\ \E k \in 2..Len(result.value) :
          LET prev == result.value[k-1]
              here == result.value[k]
          IN  /\ Len(prev) >= 2
              /\ SameWithinTolerance(KeyOf(Last(prev), StageKey), KeyOf(here[1], StageKey),
                                     StageTolerance)

\* C3: in every group of a tolerance stage each member's value v is within
\* the tolerance of the value r of the group's first member:
\* |v - r| <= tolerance * |r|.
C3_MembersWithinTolerance ==
    (ToleranceStage /\ result.raised = "none") =>
        \A k \in 1..Len(result.value) :
            \A i \in 1..Len(result.value[k]) :
                LET r == KeyOf(result.value[k][1], StageKey)
                    v == KeyOf(result.value[k][i], StageKey)
                IN  Abs(v - r) * 100 <= StageTolerance * Abs(r)

\* C4: with size grouping on, the members of a group share (width, height,
\* binning) and two descriptors with the same (width, height, binning) are in
\* the same group.
C4_OneGroupPerSize ==
    (last_call = "get_groups_by_size" /\ group_by_size) =>
        /\ result.raised = "none"
        /\ \A k \in 1..Len(result.value) :
              \A d, e \in Range(result.value[k]) :
                  d.x = e.x /\ d.y = e.y /\ d.binning = e.binning
        /\ \A d, e \in Range(selected_files) :
              (d.x = e.x /\ d.y = e.y /\ d.binning = e.binning) =>
                  \E k \in 1..Len(result.value) :
                      d \in Range(result.value[k]) /\ e \in Range(result.value[k])

\* two frames of one size with a frame of another size between them
C4_Witness ==
    /\ last_call = "get_groups_by_size" /\ group_by_size
    /\ Len(selected_files) = 3
    /\ get_size_key(selected_files[1]) = get_size_key(selected_files[3])
    /\ get_size_key(selected_files[1]) # get_size_key(selected_files[2])
    /\ Len(result.value) = 2

\* the stage of the last call, applied again
Regroup(files) ==
    IF last_call = "get_groups_by_exposure"
    THEN get_groups_by_exposure(files, TRUE, exposure_group_tolerance)
    ELSE get_groups_by_temperature(files, TRUE, temperature_group_tolerance)

\* C5: grouping the groups of a tolerance stage again with the same tolerance,
\* each group on its own or all of them flattened, gives the same groups.
C5_RegroupingIsIdempotent ==
    (ToleranceStage /\ result.raised = "none") =>
        /\ Regroup(Flatten(result.value)) = Returned(result.value)
        /\ \A k \in 1..Len(result.value) :
              Regroup(result.value[k]) = Returned(<<result.value[k]>>)

C5_Witness ==
    /\ ToleranceStage /\ result.raised = "none"
    /\ Len(result.value) >= 2
    /\ \E k \in 1..Len(result.value) : Len(result.value[k]) >= 2

EngineCall ==
    last_call \in {"get_groups_by_size", "get_groups_by_exposure", "get_groups_by_temperature"}

\* C6: the engine asked for the groups of an empty list does not crash, and
\* answers with the same shape whatever the flags.
C6_EmptyListSameShape ==
    (EngineCall /\ selected_files = <<>>) =>
        /\ result.raised = "none"
        /\ \A flag \in BOOLEAN :
              /\ get_groups_by_size(<<>>, flag) = result
              /\ get_groups_by_exposure(<<>>, flag, exposure_group_tolerance) = result
              /\ get_groups_by_temperature(<<>>, flag, temperature_group_tolerance) = result

-----------------------------------------------------------------------------
(* The configuration boundary of the grouping tolerances:                  *)
(* Preferences setters and getters, MainWindow tolerance fields            *)

\* what a text field can hold: a number (in hundredths) or no number at all
Number(h) == [numeric |-> TRUE, hundredths |-> h]

NotANumber == [numeric |-> FALSE, hundredths |-> 0]

\* "abc", -0.01, 0, 0.05, 0.99, 1, 5, 100 typed into a tolerance field
FieldTexts == { NotANumber } \cup { Number(h) : h \in {-1, 0, 5, 99, 100, 500, 10000} }

\* the values a caller can hand to a Preferences setter
PreferenceInputs == { -1, 0, 5, 99, 100, 500 }

None == [is_none |-> TRUE, hundredths |-> 0]

Some(h) == [is_none |-> FALSE, hundredths |-> h]

\* Validators.valid_float_in_range(proposed, minimum, maximum), the limits in
\* thousandths: the number, or None when the text is no number or out of range
valid_float_in_range(proposed, minimum, maximum) ==
    IF proposed.numeric /\ minimum <= 10 * proposed.hundredths
                        /\ 10 * proposed.hundredths <= maximum
    THEN Some(proposed.hundredths)
    ELSE None

\* SharedUtils.background_validity_color: the colour appended to the style sheet
background_validity_color(is_valid) == IF is_valid THEN "white" ELSE "#FC8484"

\* DataModel.set_exposure_group_tolerance / set_temperature_group_tolerance
data_model_set_tolerance(value) == value

\* `assert 0.0 <= percentage < 1.0` of the Preferences setters and getters
PreferencesAssertion(percentage) == 0 <= percentage /\ percentage < 100

InitConfiguration ==
    /\ selected_files = <<>>
    /\ group_by_size = FALSE /\ group_by_exposure = FALSE /\ group_by_temperature = FALSE
    /\ exposure_group_tolerance = 5
    /\ temperature_group_tolerance = 10
    /\ ConfigurationAtStart
    /\ file_data = <<>>
    /\ directory_files = <<>>
    /\ sample_file = BlankDescriptor
    /\ SessionSettingsAtStart
    /\ NothingCalled

UnchangedByConfiguration ==
    UNCHANGED <<selected_files, group_by_size, group_by_exposure, group_by_temperature,
                file_data, auto_directory_vars, console,
                session_settings_vars, main_window_vars, console_button_vars, session_vars, console_window_vars>>

\* MainWindow.exposure_group_tolerance_changed
exposure_group_tolerance_changed(text) ==
    LET new_number == valid_float_in_range(text, 0, 99999)
        valid == ~new_number.is_none
    IN  /\ exposure_group_tolerance' =
              IF valid THEN data_model_set_tolerance(new_number.hundredths)
              ELSE exposure_group_tolerance
        /\ field_background' = [field_background EXCEPT !.exposureGroupTolerance =
                                    background_validity_color(valid)]
        /\ field_validity' = [field_validity EXCEPT !.exposureGroupTolerance =
                                  IF valid THEN "valid" ELSE "invalid"]
        /\ last_call' = "exposure_group_tolerance_changed"
        /\ call_args' = text
        /\ result' = Returned(<<>>)
        /\ UNCHANGED <<temperature_group_tolerance, pref_exposure_group_tolerance,
                       pref_temperature_group_tolerance>>
        /\ UnchangedByConfiguration

ExposureGroupToleranceChanged == \E text \in FieldTexts : exposure_group_tolerance_changed(text)

\* MainWindow.temperature_group_tolerance_changed
temperature_group_tolerance_changed(text) ==
    LET new_number == valid_float_in_range(text, 0, 99999)
        valid == ~new_number.is_none
    IN  /\ temperature_group_tolerance' =
              IF valid THEN data_model_set_tolerance(new_number.hundredths)
              ELSE temperature_group_tolerance
        /\ field_background' = [field_background EXCEPT !.temperatureGroupTolerance =
                                    background_validity_color(valid)]
        /\ field_validity' = [field_validity EXCEPT !.temperatureGroupTolerance =
                                  IF valid THEN "valid" ELSE "invalid"]
        /\ last_call' = "temperature_group_tolerance_changed"
        /\ call_args' = text
        /\ result' = Returned(<<>>)
        /\ UNCHANGED <<exposure_group_tolerance, pref_exposure_group_tolerance,
                       pref_temperature_group_tolerance>>
        /\ UnchangedByConfiguration

TemperatureGroupToleranceChanged ==
    \E text \in FieldTexts : temperature_group_tolerance_changed(text)

\* Preferences.set_exposure_group_tolerance: the assertion, then setValue
set_exposure_group_tolerance(percentage) ==
    /\ pref_exposure_group_tolerance' =
          IF PreferencesAssertion(percentage) THEN percentage
          ELSE pref_exposure_group_tolerance
    /\ last_call' = "set_exposure_group_tolerance"
    /\ call_args' = percentage
    /\ result' = IF PreferencesAssertion(percentage) THEN Returned(<<>>)
                 ELSE Raised("AssertionError")
    /\ UNCHANGED <<exposure_group_tolerance, temperature_group_tolerance,
                   pref_temperature_group_tolerance, field_validity, field_background>>
    /\ UnchangedByConfiguration

SetExposureGroupTolerance == \E p \in PreferenceInputs : set_exposure_group_tolerance(p)

\* Preferences.set_temperature_group_tolerance
set_temperature_group_tolerance(percentage) ==
    /\ pref_temperature_group_tolerance' =
          IF PreferencesAssertion(percentage) THEN percentage
          ELSE pref_temperature_group_tolerance
    /\ last_call' = "set_temperature_group_tolerance"
    /\ call_args' = percentage
    /\ result' = IF PreferencesAssertion(percentage) THEN Returned(<<>>)
                 ELSE Raised("AssertionError")
    /\ UNCHANGED <<exposure_group_tolerance, temperature_group_tolerance,
                   pref_exposure_group_tolerance, field_validity, field_background>>
    /\ UnchangedByConfiguration

SetTemperatureGroupTolerance == \E p \in PreferenceInputs : set_temperature_group_tolerance(p)

\* Preferences.get_exposure_group_tolerance: the stored value, asserted
get_exposure_group_tolerance ==
    /\ last_call' = "get_exposure_group_tolerance"
    /\ call_args' = <<>>
    /\ result' = IF PreferencesAssertion(pref_exposure_group_tolerance)
                 THEN Returned(pref_exposure_group_tolerance)
                 ELSE Raised("AssertionError")
    /\ UNCHANGED <<exposure_group_tolerance, temperature_group_tolerance,
                   configuration_vars>>
    /\ UnchangedByConfiguration

\* Preferences.get_temperature_group_tolerance
get_temperature_group_tolerance ==
    /\ last_call' = "get_temperature_group_tolerance"
    /\ call_args' = <<>>
    /\ result' = IF PreferencesAssertion(pref_temperature_group_tolerance)
                 THEN Returned(pref_temperature_group_tolerance)
                 ELSE Raised("AssertionError")
    /\ UNCHANGED <<exposure_group_tolerance, temperature_group_tolerance,
                   configuration_vars>>
    /\ UnchangedByConfiguration

NextConfiguration ==
    \/ ExposureGroupToleranceChanged
    \/ TemperatureGroupToleranceChanged
    \/ SetExposureGroupTolerance
    \/ SetTemperatureGroupTolerance
    \/ get_exposure_group_tolerance
    \/ get_temperature_group_tolerance

SpecConfiguration == InitConfiguration /\ [][NextConfiguration]_vars

\* C7: every grouping tolerance the configuration boundary accepts and stores,
\* in the preferences or in the data model that process_groups reads, satisfies
\* 0 <= t < 1.
C7_StoredTolerancesInRange ==
    /\ 0 <= pref_exposure_group_tolerance /\ pref_exposure_group_tolerance < 100
    /\ 0 <= pref_temperature_group_tolerance /\ pref_temperature_group_tolerance < 100
    /\ 0 <= exposure_group_tolerance /\ exposure_group_tolerance < 100
    /\ 0 <= temperature_group_tolerance /\ temperature_group_tolerance < 100

-----------------------------------------------------------------------------
(* Calibrator: pedestal and fixed-file calibration                         *)
(*                                                                         *)
(* A pixel array is its shape and its pixels in row order.  The arrays     *)
(* read from the frames hold the pixel values as numbers that subtract     *)
(* without wrapping (the differences below can be negative).               *)

MaxStack == 2

ShapePool == { <<1, 1>>, <<2, 1>>, <<1, 2>> }

\* pixel values of the 16-bit sensor range 0..65535
PixelPool == { 5, 65535 }

\* pedestals of the range 0..32767
PedestalPool == { 0, 10, 32767 }

ArrayPool ==
    UNION { { [shape |-> sh, data |-> d] : d \in [1..(sh[1] * sh[2]) -> PixelPool] } :
            sh \in ShapePool }

\* ndarray - scalar
minus_scalar(array, scalar) ==
    [array EXCEPT !.data = [i \in DOMAIN array.data |-> array.data[i] - scalar]]

\* ndarray - ndarray of the same shape
minus_array(array, other) ==
    [array EXCEPT !.data = [i \in DOMAIN array.data |-> array.data[i] - other.data[i]]]

\* ndarray.clip(a_min, a_max)
clip(array, a_min, a_max) ==
    [array EXCEPT !.data =
        [i \in DOMAIN array.data |->
            IF array.data[i] < a_min THEN a_min
            ELSE IF array.data[i] > a_max THEN a_max
            ELSE array.data[i]]]

\* the mutant keeps the upper limit of the clip only
RECURSIVE pedestal_loop_no_floor(_, _, _)
pedestal_loop_no_floor(result_list, index, pedestal) ==
    IF index > Len(result_list) THEN result_list
    ELSE LET reduced_by_pedestal == minus_scalar(result_list[index], pedestal)
         IN  pedestal_loop_no_floor(
                 [result_list EXCEPT ![index] =
                     clip(reduced_by_pedestal, -65535, 65535)],
                 index + 1, pedestal)

\* for index in range(len(result)), from `index` on
RECURSIVE pedestal_loop(_, _, _)
pedestal_loop(result_list, index, pedestal) ==
    IF index > Len(result_list) THEN result_list
    ELSE LET reduced_by_pedestal == minus_scalar(result_list[index], pedestal)
         IN  pedestal_loop(
                 [result_list EXCEPT ![index] = clip(reduced_by_pedestal, 0, 65535)],
                 index + 1, pedestal)

\* Calibrator.calibrate_with_pedestal: works on a copy of the list
calibrate_with_pedestal(stack, pedestal) ==
    Returned(pedestal_loop(stack, 1, pedestal))

\* the mutant skips an array of another size instead of raising
RECURSIVE file_loop_skips(_, _, _)
file_loop_skips(result_list, index, calibration_image) ==
    IF index > Len(result_list) THEN Returned(result_list)
    ELSE LET layer_x == result_list[index].shape[1]
             layer_y == result_list[index].shape[2]
             calibration_x == calibration_image.shape[1]
             calibration_y == calibration_image.shape[2]
         IN  IF (layer_x # calibration_x) \/ (layer_y # calibration_y)
             THEN file_loop_skips(result_list, index + 1, calibration_image)
             ELSE LET difference == minus_array(result_list[index], calibration_image)
                  IN  file_loop_skips(
                          [result_list EXCEPT ![index] = clip(difference, 0, 65535)],
                          index + 1, calibration_image)

\* for index in range(len(result)), from `index` on
RECURSIVE file_loop(_, _, _)
file_loop(result_list, index, calibration_image) ==
    IF index > Len(result_list) THEN Returned(result_list)
    ELSE LET layer_x == result_list[index].shape[1]
             layer_y == result_list[index].shape[2]
             calibration_x == calibration_image.shape[1]
             calibration_y == calibration_image.shape[2]
         IN  IF (layer_x # calibration_x) \/ (layer_y # calibration_y)
             THEN Raised("IncompatibleSizes")
             ELSE LET difference == minus_array(result_list[index], calibration_image)
                  IN  file_loop(
                          [result_list EXCEPT ![index] = clip(difference, 0, 65535)],
                          index + 1, calibration_image)

\* RmFitsUtil.fits_data_from_path: the array of the file, when it can be read
NoFile == [found |-> FALSE, image |-> [shape |-> <<0, 0>>, data |-> <<>>]]

FileWith(image) == [found |-> TRUE, image |-> image]

\* Calibrator.calibrate_with_file, by what is at calibration_file_path
calibrate_with_file(stack, at_path) ==
    IF ~at_path.found THEN Raised("FileNotFoundError")
    ELSE file_loop(stack, 1, at_path.image)

InitCalibration ==
    /\ selected_files = <<>>
    /\ group_by_size = FALSE /\ group_by_exposure = FALSE /\ group_by_temperature = FALSE
    /\ exposure_group_tolerance = 5
    /\ temperature_group_tolerance = 10
    /\ ConfigurationAtStart
    /\ file_data \in SeqsUpTo(ArrayPool, MaxStack)
    /\ directory_files = <<>>
    /\ sample_file = BlankDescriptor
    /\ SessionSettingsAtStart
    /\ NothingCalled

\* the objects of a calibration call: the arrays, and the lists that hold
\* references to them.  List 1 is the list of the caller; its item i refers
\* to array i.
ObjectsOf(stack) ==
    [arrays |-> stack, lists |-> << [i \in 1..Len(stack) |-> i] >>]

\* the mutant works on the list of the caller
list_copy_same_list(objects) == [objects |-> objects, list |-> 1]

\* file_data.copy(): a new list that holds the references of the caller's list
list_copy(objects) ==
    [objects |-> [objects EXCEPT !.lists = Append(@, objects.lists[1])],
     list |-> Len(objects.lists) + 1]

get_item(objects, list, index) == objects.arrays[objects.lists[list][index]]

\* result[index] = array, for an array that the subtraction and the clip have
\* just made: the item of the list refers to the new array
set_item(objects, list, index, array) ==
    [arrays |-> Append(objects.arrays, array),
     lists |-> [objects.lists EXCEPT ![list][index] = Len(objects.arrays) + 1]]

\* the stack that the caller finds in its list
stack_of_caller(objects) ==
    [i \in 1..Len(objects.lists[1]) |-> objects.arrays[objects.lists[1][i]]]

\* the loop of calibrate_with_pedestal on the objects, from `index` on
RECURSIVE pedestal_objects_loop(_, _, _, _)
pedestal_objects_loop(objects, list, index, pedestal) ==
    IF index > Len(objects.lists[list]) THEN objects
    ELSE LET reduced_by_pedestal == minus_scalar(get_item(objects, list, index), pedestal)
         IN  pedestal_objects_loop(
                 set_item(objects, list, index, clip(reduced_by_pedestal, 0, 65535)),
                 list, index + 1, pedestal)

\* the loop of calibrate_with_file on the objects, from `index` on; the raise
\* leaves the objects as the loop has made them so far
RECURSIVE file_objects_loop(_, _, _, _)
file_objects_loop(objects, list, index, calibration_image) ==
    IF index > Len(objects.lists[list]) THEN objects
    ELSE LET layer == get_item(objects, list, index)
         IN  IF (layer.shape[1] # calibration_image.shape[1])
                   \/ (layer.shape[2] # calibration_image.shape[2])
             THEN objects
             ELSE LET difference == minus_array(layer, calibration_image)
                  IN  file_objects_loop(
                          set_item(objects, list, index, clip(difference, 0, 65535)),
                          list, index + 1, calibration_image)

\* the list of the caller after calibrate_with_pedestal
file_data_after_pedestal(stack, pedestal) ==
    LET copied == list_copy(ObjectsOf(stack))
    IN  stack_of_caller(pedestal_objects_loop(copied.objects, copied.list, 1, pedestal))

\* the list of the caller after calibrate_with_file, returned or raised
file_data_after_file(stack, at_path) ==
    LET copied == list_copy(ObjectsOf(stack))
    IN  IF ~at_path.found THEN stack_of_caller(copied.objects)
        ELSE stack_of_caller(file_objects_loop(copied.objects, copied.list, 1, at_path.image))

\* what a call of the calibrator leaves alone, the stack apart
UnchangedButTheStack ==
    UNCHANGED <<selected_files, data_model_vars, configuration_vars,
                auto_directory_vars, console,
                session_settings_vars, main_window_vars, console_button_vars, session_vars, console_window_vars>>

UnchangedByCalibration ==
    UNCHANGED <<selected_files, data_model_vars, configuration_vars, file_data,
                auto_directory_vars, console,
                session_settings_vars, main_window_vars, console_button_vars, session_vars, console_window_vars>>

CalibrateWithPedestal ==
    \E pedestal \in PedestalPool :
        /\ last_call' = "calibrate_with_pedestal"
        /\ call_args' = pedestal
        /\ result' = calibrate_with_pedestal(file_data, pedestal)
        /\ file_data' = file_data_after_pedestal(file_data, pedestal)
        /\ UnchangedButTheStack

CalibrateWithFile ==
    \E at_path \in { NoFile } \cup { FileWith(image) : image \in ArrayPool } :
        /\ last_call' = "calibrate_with_file"
        /\ call_args' = at_path
        /\ result' = calibrate_with_file(file_data, at_path)
        /\ file_data' = file_data_after_file(file_data, at_path)
        /\ UnchangedButTheStack

NextCalibration ==
    \/ CalibrateWithPedestal
    \/ CalibrateWithFile

SpecCalibration == InitCalibration /\ [][NextCalibration]_vars

Clamp(n) == IF n < 0 THEN 0 ELSE IF n > 65535 THEN 65535 ELSE n

\* C8: pedestal calibration gives, for every array of the stack and every
\* pixel v, the pixel max(0, min(65535, v - pedestal)): a value below the
\* pedestal gives 0.
C8_PedestalSubtractsAndClamps ==
    last_call = "calibrate_with_pedestal" =>
        /\ result.raised = "none"
        /\ Len(result.value) = Len(file_data)
        /\ \A index \in 1..Len(file_data) :
              /\ result.value[index].shape = file_data[index].shape
              /\ DOMAIN result.value[index].data = DOMAIN file_data[index].data
              /\ \A i \in DOMAIN file_data[index].data :
                    /\ result.value[index].data[i] = Clamp(file_data[index].data[i] - call_args)
                    /\ file_data[index].data[i] < call_args => result.value[index].data[i] = 0

\* value 5 with pedestal 10 gives 0
C8_Witness ==
    /\ last_call = "calibrate_with_pedestal"
    /\ call_args = 10
    /\ \E index \in 1..Len(file_data) : \E i \in DOMAIN file_data[index].data :
          file_data[index].data[i] = 5 /\ result.value[index].data[i] = 0

ReferenceLoaded == last_call = "calibrate_with_file" /\ call_args.found

\* C9: fixed-file calibration fails with IncompatibleSizes and returns no
\* stack when the reference array's (width, height) differs from that of an
\* array of the stack; otherwise the output has the length of the input and
\* every output array is input - reference, element by element, clamped to
\* [0, 65535].
C9_FileChecksSizesThenSubtracts ==
    ReferenceLoaded =>
        LET reference == call_args.image
        IN  IF \E index \in 1..Len(file_data) : file_data[index].shape # reference.shape
            THEN result = Raised("IncompatibleSizes")
            ELSE /\ result.raised = "none"
                 /\ Len(result.value) = Len(file_data)
                 /\ \A index \in 1..Len(file_data) :
                       /\ result.value[index].shape = file_data[index].shape
                       /\ DOMAIN result.value[index].data = DOMAIN file_data[index].data
                       /\ \A i \in DOMAIN file_data[index].data :
                             result.value[index].data[i] =
                                 Clamp(file_data[index].data[i] - reference.data[i])

\* the first array of the stack fits the reference and the second does not
C9_Witness ==
    /\ ReferenceLoaded
    /\ Len(file_data) = 2
    /\ file_data[1].shape = call_args.image.shape
    /\ file_data[2].shape # call_args.image.shape
    /\ result.raised = "IncompatibleSizes"

-----------------------------------------------------------------------------
(* Calibrator: the best calibration frame of a directory                   *)

MaxDirectoryFiles == 3

MaxConsoleLines == 2

\* (x, y, binning) of the frames of the directory and of the sample frame
DirectorySizePool == { <<100, 100, 1>>, <<100, 100, 2>> }

\* -5 and -3 are equally far from a sample at -4
DirectoryTemperaturePool == { -10, -5, -3, 0 }

SampleTemperaturePool == { -4, -5 }

\* the descriptors of a directory listing: one file (one path) per position
DirectoryListings ==
    { [i \in 1..Len(attrs) |-> FileDescriptor(i, attrs[i][1], 0, attrs[i][2])] :
        attrs \in SeqsUpTo(DirectorySizePool \X DirectoryTemperaturePool, MaxDirectoryFiles) }

get_x_dimension(d) == d.x

get_y_dimension(d) == d.y

get_binning(d) == d.binning

\* one path per file: the position in its listing
get_absolute_path(d) == d.name

get_name(d) == d.name

\* the mutant compares the dimensions and not the binning
filter_to_correct_size_any_binning(all_descriptors, sample) ==
    LET Correct(d) == /\ get_x_dimension(d) = get_x_dimension(sample)
                      /\ get_y_dimension(d) = get_y_dimension(sample)
    IN  SelectSeq(all_descriptors, Correct)

\* Calibrator.filter_to_correct_size
filter_to_correct_size(all_descriptors, sample) ==
    LET x_dimension == get_x_dimension(sample)
        y_dimension == get_y_dimension(sample)
        binning == get_binning(sample)
        Correct(d) == /\ get_x_dimension(d) = x_dimension
                      /\ get_y_dimension(d) = y_dimension
                      /\ get_binning(d) = binning
    IN  SelectSeq(all_descriptors, Correct)

\* sys.float_info.max: above every difference of two temperatures
FloatMax == [is_max |-> TRUE, value |-> 0]

Difference(n) == [is_max |-> FALSE, value |-> n]

\* this_difference < best_difference_so_far
LessThanBest(this_difference, best_difference_so_far) ==
    best_difference_so_far.is_max \/ this_difference < best_difference_so_far.value

\* the mutant replaces the best frame on an equal difference too
RECURSIVE closest_loop_or_equal(_, _, _, _)
closest_loop_or_equal(descriptors, target_temperature, best_file_so_far, best_difference_so_far) ==
    IF descriptors = <<>> THEN best_file_so_far
    ELSE LET descriptor == Head(descriptors)
             this_difference == Abs(get_temperature(descriptor) - target_temperature)
         IN  IF \/ LessThanBest(this_difference, best_difference_so_far)
                \/ this_difference = best_difference_so_far.value
             THEN closest_loop_or_equal(Tail(descriptors), target_temperature, descriptor, Difference(this_difference))
             ELSE closest_loop_or_equal(Tail(descriptors), target_temperature, best_file_so_far, best_difference_so_far)

\* for descriptor in descriptors
RECURSIVE closest_loop(_, _, _, _)
closest_loop(descriptors, target_temperature, best_file_so_far, best_difference_so_far) ==
    IF descriptors = <<>> THEN best_file_so_far
    ELSE LET descriptor == Head(descriptors)
             this_difference == Abs(get_temperature(descriptor) - target_temperature)
         IN  IF LessThanBest(this_difference, best_difference_so_far)
             THEN closest_loop(Tail(descriptors), target_temperature, descriptor, Difference(this_difference))
             ELSE closest_loop(Tail(descriptors), target_temperature, best_file_so_far, best_difference_so_far)

\* the line closest_temperature_match gives to console.message
SelectedMessage(best_file) ==
    [text |-> <<"Selected calibration file", get_name(best_file),
                "at temperature", get_temperature(best_file)>>,
     indent |-> 1, temp |-> TRUE]

\* Calibrator.closest_temperature_match: the frame returned and the console lines
closest_temperature_match(descriptors, target_temperature) ==
    LET best_file_so_far == closest_loop(descriptors, target_temperature, BlankDescriptor, FloatMax)
    IN  [outcome |-> Returned(best_file_so_far),
         lines |-> <<SelectedMessage(best_file_so_far)>>]

\* Calibrator.get_best_calibration_file; MasterMakerExceptions defines no
\* AutoCalibrationDirectoryEmpty, so naming it raises AttributeError
get_best_calibration_file(all_descriptors, sample) ==
    IF Len(all_descriptors) = 0
    THEN [outcome |-> Raised("AttributeError"), lines |-> <<>>]
    ELSE LET correct_size == filter_to_correct_size(all_descriptors, sample)
         IN  IF Len(correct_size) = 0
             THEN [outcome |-> Raised("NoSuitableAutoBias"), lines |-> <<>>]
             ELSE LET closest == closest_temperature_match(correct_size, get_temperature(sample))
                  IN  [outcome |-> Returned(get_absolute_path(closest.outcome.value)),
                       lines |-> closest.lines]

InitAutoDirectory ==
    /\ selected_files = <<>>
    /\ group_by_size = FALSE /\ group_by_exposure = FALSE /\ group_by_temperature = FALSE
    /\ exposure_group_tolerance = 5
    /\ temperature_group_tolerance = 10
    /\ ConfigurationAtStart
    /\ file_data = <<>>
    /\ directory_files \in DirectoryListings
    /\ \E size \in DirectorySizePool, temperature \in SampleTemperaturePool :
          sample_file = FileDescriptor(0, size, 0, temperature)
    /\ SessionSettingsAtStart
    /\ NothingCalled

UnchangedByAutoDirectory ==
    UNCHANGED <<selected_files, data_model_vars, configuration_vars, file_data,
                auto_directory_vars,
                session_settings_vars, main_window_vars, console_button_vars, session_vars, console_window_vars>>

\* closest_temperature_match on the frames of the directory as they are listed
ClosestTemperatureMatch ==
    /\ Len(console) < MaxConsoleLines
    /\ LET call == closest_temperature_match(directory_files, get_temperature(sample_file))
       IN  /\ last_call' = "closest_temperature_match"
           /\ call_args' = <<>>
           /\ result' = call.outcome
           /\ console' = console \o call.lines
    /\ UnchangedByAutoDirectory

GetBestCalibrationFile ==
    /\ Len(console) < MaxConsoleLines
    /\ LET call == get_best_calibration_file(directory_files, sample_file)
       IN  /\ last_call' = "get_best_calibration_file"
           /\ call_args' = <<>>
           /\ result' = call.outcome
           /\ console' = console \o call.lines
    /\ UnchangedByAutoDirectory

NextAutoDirectory ==
    \/ ClosestTemperatureMatch
    \/ GetBestCalibrationFile

SpecAutoDirectory == InitAutoDirectory /\ [][NextAutoDirectory]_vars

\* the frames of the directory of the sample frame's (width, height, binning)
SizeMatches ==
    SelectSeq(directory_files,
              LAMBDA d : d.x = sample_file.x /\ d.y = sample_file.y
                         /\ d.binning = sample_file.binning)

TemperatureDistance(d) == Abs(d.temperature - sample_file.temperature)

\* candidates[i] is as close to the sample as any candidate, and closer than
\* every candidate before it
FirstMinimum(candidates, i) ==
    /\ \A j \in 1..Len(candidates) :
          TemperatureDistance(candidates[i]) <= TemperatureDistance(candidates[j])
    /\ \A j \in 1..(i - 1) :
          TemperatureDistance(candidates[i]) < TemperatureDistance(candidates[j])

\* C10: among the frames of the directory that match the sample frame's
\* (width, height, binning), the frame selected is one whose absolute
\* temperature difference to the sample is minimal, and of several such
\* frames it is the one that comes first in the list.
C10_ClosestTemperatureFirstWins ==
    /\ (last_call = "get_best_calibration_file" /\ SizeMatches # <<>>) =>
          /\ result.raised = "none"
          /\ \E i \in 1..Len(SizeMatches) :
                /\ result.value = SizeMatches[i].name
                /\ FirstMinimum(SizeMatches, i)
    /\ (last_call = "closest_temperature_match" /\ directory_files # <<>>) =>
          /\ result.raised = "none"
          /\ \E i \in 1..Len(directory_files) :
                /\ result.value = directory_files[i]
                /\ FirstMinimum(directory_files, i)

\* of three frames of the directory two match the sample's size and are
\* equally far from its temperature, and the first of the two is selected
C10_Witness ==
    /\ last_call = "get_best_calibration_file"
    /\ result.raised = "none"
    /\ Len(directory_files) = 3
    /\ Len(SizeMatches) = 2
    /\ TemperatureDistance(SizeMatches[1]) = TemperatureDistance(SizeMatches[2])
    /\ result.value = SizeMatches[1].name

\* C11: on a directory that yields no frame descriptors the selection
\* fails with the error kind AutoCalibrationDirectoryEmpty, a kind of its
\* own, and selects no calibration file.
C11_EmptyDirectoryHasItsOwnKind ==
    (last_call = "get_best_calibration_file" /\ directory_files = <<>>) =>
        result = Raised("AutoCalibrationDirectoryEmpty")

\* C12: on a directory that has frames but none of the sample frame's
\* (width, height, binning) the selection fails with NoSuitableAutoBias, and
\* a selected calibration file always has the sample frame's (width, height,
\* binning).
C12_SelectedFileHasSampleSize ==
    last_call = "get_best_calibration_file" =>
        /\ (directory_files # <<>> /\ SizeMatches = <<>>) =>
              result = Raised("NoSuitableAutoBias")
        /\ result.raised = "none" =>
              \E i \in 1..Len(directory_files) :
                 /\ directory_files[i].name = result.value
                 /\ directory_files[i].x = sample_file.x
                 /\ directory_files[i].y = sample_file.y
                 /\ directory_files[i].binning = sample_file.binning

\* every frame of the directory has the sample's dimensions and another binning
C12_Witness ==
    /\ last_call = "get_best_calibration_file"
    /\ Len(directory_files) >= 2
    /\ \A i \in 1..Len(directory_files) :
          /\ directory_files[i].x = sample_file.x
          /\ directory_files[i].y = sample_file.y
          /\ directory_files[i].binning # sample_file.binning
    /\ result = Raised("NoSuitableAutoBias")

-----------------------------------------------------------------------------
(* The processing of a session: FileCombiner.process_groups,               *)
(* process_one_group, original_non_grouped_processing and combine_files,   *)
(* one step per group validated and per set combined.                      *)

MaxSessionFiles == 3

SessionSizePool == { <<100, 100, 1>>, <<200, 100, 1>>, <<100, 100, 2>> }

\* FileDescriptor.FILE_TYPE_DARK and one other frame type
FrameTypes == { "DARK", "LIGHT" }

\* Constants.COMBINE_MEAN, COMBINE_MINMAX, COMBINE_SIGMA_CLIP
CombineMethods == { "COMBINE_MEAN", "COMBINE_MINMAX", "COMBINE_SIGMA_CLIP" }

get_type(d) == d.type

get_dimensions(d) == <<d.x, d.y>>

\* the descriptors of a selection of frames of 10 seconds at 0 degrees
SessionFiles(attrs) ==
    [i \in 1..Len(attrs) |->
        [FileDescriptor(i, attrs[i][1], 10, 0) EXCEPT !.type = attrs[i][2]]]

SessionSelections ==
    { SessionFiles(attrs) : attrs \in SeqsUpTo(SessionSizePool \X FrameTypes, MaxSessionFiles) }

\* the mutant looks at the type of the first file only
all_of_type_first_file(files, type_code) ==
    files = <<>> \/ get_type(files[1]) = type_code

\* FileCombiner.all_of_type
all_of_type(files, type_code) ==
    \A i \in 1..Len(files) : ~(get_type(files[i]) # type_code)

\* FileCombiner.all_compatible_sizes
all_compatible_sizes(files) ==
    IF Len(files) = 0 THEN TRUE
    ELSE LET x_dimension == get_dimensions(files[1])[1]
             y_dimension == get_dimensions(files[1])[2]
             binning == get_binning(files[1])
         IN  \A i \in 1..Len(files) :
                ~ \/ get_dimensions(files[i])[1] # x_dimension
                  \/ get_dimensions(files[i])[2] # y_dimension
                  \/ get_binning(files[i]) # binning

\* MainWindow.min_max_enough_files
min_max_enough_files(num_selected) ==
    IF master_combine_method # "COMBINE_MINMAX" THEN TRUE
    ELSE num_selected > (2 * min_max_number_clipped_per_end)

\* MainWindow.all_text_fields_valid: no field is in error
all_text_fields_valid ==
    /\ field_validity.exposureGroupTolerance # "invalid"
    /\ field_validity.temperatureGroupTolerance # "invalid"

\* MainWindow.validate_file_dimensions, no calibration file in use
validate_file_dimensions(descriptors) ==
    \/ Len(descriptors) = 0
    \/ \A i \in 1..Len(descriptors) :
          /\ get_binning(descriptors[i]) = get_binning(descriptors[1])
          /\ get_x_dimension(descriptors[i]) = get_x_dimension(descriptors[1])
          /\ get_y_dimension(descriptors[i]) = get_y_dimension(descriptors[1])

\* MainWindow.enable_buttons: the state of combineSelectedButton, no
\* calibration file or directory in use
combine_button_enabled ==
    LET num_selected == Len(selected_files)
        sigma_clip_enough_files ==
            (master_combine_method # "COMBINE_SIGMA_CLIP") \/ num_selected >= 3
        dimensions_ok == group_by_size \/ validate_file_dimensions(selected_files)
    IN  /\ all_text_fields_valid
        /\ num_selected > 0
        /\ min_max_enough_files(num_selected)
        /\ sigma_clip_enough_files
        /\ dimensions_ok

\* an event of the session log
Event(event, group) == [event |-> event, group |-> group]

\* the mutant goes on with the next group after an exception
raise_from_group_skips(remaining) ==
    IF remaining = <<>> THEN "returned" ELSE "next_group"

\* an exception raised under the loops of process_groups leaves them all:
\* lines 59-79 hold no except clause
raise_from_group(remaining) == "raised"

\* the loops of process_groups go on to the next group, or end
after_group(remaining) ==
    IF remaining = <<>> THEN "returned" ELSE "next_group"

\* what combine_files can meet: the reference of the calibration does not
\* fit, no calibration file of the right size, the output cannot be written
CombineOutcomes == { "written", "IncompatibleSizes", "NoSuitableAutoBias", "PermissionError" }

InitSession ==
    /\ selected_files \in SessionSelections
    /\ group_by_size \in BOOLEAN
    /\ group_by_exposure \in BOOLEAN
    /\ group_by_temperature \in BOOLEAN
    /\ exposure_group_tolerance = 5
    /\ temperature_group_tolerance = 10
    /\ ConfigurationAtStart
    /\ file_data = <<>>
    /\ directory_files = <<>>
    /\ sample_file = BlankDescriptor
    /\ ignore_file_type \in BOOLEAN
    /\ master_combine_method \in CombineMethods
    /\ min_max_number_clipped_per_end = 1
    /\ output_directory \in FoundAtPath
    /\ NothingCalled
    \* the session is started with the Combine button, which is enabled
    /\ combine_button_enabled

UnchangedBySession ==
    UNCHANGED <<selected_files, data_model_vars, configuration_vars, file_data,
                auto_directory_vars, console, call_args, session_settings_vars, main_window_vars, console_button_vars,
                console_window_vars>>

\* FileCombiner.process_groups, lines 49-60: the output directory is ensured
\* and the selection is grouped; the groups are then processed one by one
ProcessGroupsStart ==
    /\ session_pc = "idle"
    /\ group_by_exposure \/ group_by_size \/ group_by_temperature
    /\ last_call' = "process_groups"
    /\ LET made == ensure_directory_exists(output_directory)
           groups == nested_groups(selected_files, group_by_size,
                                   group_by_exposure, exposure_group_tolerance,
                                   group_by_temperature, temperature_group_tolerance)
       IN  IF made.raised # "none"
           THEN /\ result' = Raised(made.raised)
                /\ session_pc' = "raised"
                /\ UNCHANGED <<output_directory, pending_groups>>
           ELSE IF ~made.value
           THEN /\ result' = Raised("NoGroupOutputDirectory")
                /\ session_pc' = "raised"
                /\ UNCHANGED <<output_directory, pending_groups>>
           ELSE IF groups.raised # "none"
           THEN /\ result' = Raised(groups.raised)
                /\ session_pc' = "raised"
                /\ output_directory' = "directory"
                /\ UNCHANGED pending_groups
           ELSE /\ result' = Returned(<<>>)
                /\ session_pc' = after_group(groups.value)
                /\ output_directory' = "directory"
                /\ pending_groups' = groups.value
    /\ UNCHANGED <<current_group, session_log, output_files, cancel_flag, finished_emitted>>
    /\ UnchangedBySession

\* the mutant checks the frame types before the sizes
validate_types_first(descriptor_list) ==
    IF ignore_file_type \/ all_of_type(descriptor_list, "DARK")
    THEN IF all_compatible_sizes(descriptor_list)
         THEN Returned(<<>>)
         ELSE Raised("IncompatibleSizes")
    ELSE Raised("NotAllDarkFrames")

\* the validation of process_one_group and of original_non_grouped_processing
validate(descriptor_list) ==
    IF all_compatible_sizes(descriptor_list)
    THEN IF ignore_file_type \/ all_of_type(descriptor_list, "DARK")
         THEN Returned(<<>>)
         ELSE Raised("NotAllDarkFrames")
    ELSE Raised("IncompatibleSizes")

\* FileCombiner.process_one_group, lines 87-113, on the next group of the loops
ProcessOneGroup ==
    /\ session_pc = "next_group"
    /\ LET descriptor_list == Head(pending_groups)
           remaining == Tail(pending_groups)
           checked == validate(descriptor_list)
       IN  /\ pending_groups' = remaining
           /\ current_group' = descriptor_list
           /\ IF checked.raised = "none"
              THEN /\ session_log' = session_log \o <<Event("started", descriptor_list),
                                                      Event("validated", descriptor_list)>>
                   /\ session_pc' = "combining"
                   /\ UNCHANGED result
              ELSE /\ session_log' = session_log \o <<Event("started", descriptor_list),
                                                      Event("failed", descriptor_list)>>
                   /\ session_pc' = raise_from_group(remaining)
                   /\ result' = checked
    /\ UNCHANGED <<output_directory, output_files, cancel_flag, finished_emitted, last_call>>
    /\ UnchangedBySession

\* FileCombiner.original_non_grouped_processing, lines 20-33 and 38-41
OriginalNonGroupedProcessing ==
    /\ session_pc = "idle"
    /\ ~(group_by_exposure \/ group_by_size \/ group_by_temperature)
    /\ Len(selected_files) > 0
    /\ last_call' = "original_non_grouped_processing"
    /\ LET checked == validate(selected_files)
       IN  /\ current_group' = selected_files
           /\ IF checked.raised = "none"
              THEN /\ session_log' = session_log \o <<Event("started", selected_files),
                                                      Event("validated", selected_files)>>
                   /\ session_pc' = "combining"
                   /\ UNCHANGED result
              ELSE /\ session_log' = session_log \o <<Event("started", selected_files),
                                                      Event("failed", selected_files)>>
                   /\ session_pc' = "raised"
                   /\ result' = checked
    /\ UNCHANGED <<output_directory, pending_groups, output_files, cancel_flag,
                   finished_emitted>>
    /\ UnchangedBySession

\* FileCombiner.combine_files on the validated set: the frames are read,
\* calibrated and combined (ImageMath) and the master file is written
\* (RmFitsUtil.create_combined_fits_file)
CombineFiles ==
    /\ session_pc = "combining"
    /\ \E outcome \in CombineOutcomes :
          CASE outcome = "written" ->
                 /\ session_log' = session_log \o <<Event("combine_files", current_group),
                                                    Event("combined", current_group),
                                                    Event("written", current_group)>>
                 /\ output_files' = Append(output_files, current_group)
                 /\ session_pc' = after_group(pending_groups)
                 /\ UNCHANGED result
            [] outcome = "PermissionError" ->
                 /\ session_log' = session_log \o <<Event("combine_files", current_group),
                                                    Event("combined", current_group),
                                                    Event("failed", current_group)>>
                 /\ session_pc' = raise_from_group(pending_groups)
                 /\ result' = Raised(outcome)
                 /\ UNCHANGED output_files
            [] OTHER ->
                 /\ session_log' = session_log \o <<Event("combine_files", current_group),
                                                    Event("failed", current_group)>>
                 /\ session_pc' = raise_from_group(pending_groups)
                 /\ result' = Raised(outcome)
                 /\ UNCHANGED output_files
    /\ UNCHANGED <<output_directory, pending_groups, current_group, cancel_flag,
                   finished_emitted, last_call>>
    /\ UnchangedBySession

\* the user asks for the cancellation of the running session
\* (SessionController sets the flag that thread_cancelled() reads)
CancelThread ==
    /\ session_pc \in { "next_group", "combining" }
    /\ ~cancel_flag
    /\ cancel_flag' = TRUE
    /\ session_log' = Append(session_log, Event("cancel_requested", current_group))
    /\ UNCHANGED <<output_directory, session_pc, pending_groups, current_group,
                   output_files, finished_emitted, last_call, result>>
    /\ UnchangedBySession

-----------------------------------------------------------------------------
(* CombineThreadWorker.run_combination_session                             *)

\* what the call of FileCombiner in the try block hands back.  The
\* FileCombiner of src/ takes three arguments and the call gives five, which
\* raises TypeError; the other outcomes are those of a FileCombiner that
\* takes the call: it returns, or raises what the session documents.
TryBlockExceptions ==
    { "TypeError", "FileNotFoundError", "NoGroupOutputDirectory", "NotAllDarkFrames",
      "IncompatibleSizes", "NoAutoCalibrationDirectory", "NoSuitableAutoBias",
      "PermissionError", "AttributeError" }

TryBlockOutcomes == { Returned(<<>>) } \cup { Raised(e) : e \in TryBlockExceptions }

\* a console line: a text, after "*** ERROR *** " when error_dialog made it
Line(text) == [error |-> FALSE, text |-> text]

ErrorLine(text) == [error |-> TRUE, text |-> text]

\* CombineThreadWorker.console_callback: the line is emitted as a signal
console_callback(message) == <<message>>

\* CombineThreadWorker.error_dialog(message), called with the arguments given
error_dialog(arguments) ==
    IF Len(arguments) # 1
    THEN [raised |-> "TypeError", lines |-> <<>>]
    ELSE [raised |-> "none",
          lines |-> console_callback(ErrorLine(arguments[1]))]

\* the except clauses of run_combination_session, lines 63-97
except_clauses(exception) ==
    CASE exception = "FileNotFoundError" ->
           error_dialog(<<"File not found", "File not found or not readable">>)
      [] exception = "NoGroupOutputDirectory" ->
           error_dialog(<<"Group Directory Missing", "could not be created">>)
      [] exception = "NotAllDarkFrames" ->
           error_dialog(<<"The selected files are not all Dark Frames", "Check Ignore FITS file type">>)
      [] exception = "IncompatibleSizes" ->
           error_dialog(<<"The selected files can't be combined", "identical dimensions and binning">>)
      [] exception = "NoAutoCalibrationDirectory" ->
           error_dialog(<<"Auto Calibration Directory Missing", "does not exist">>)
      [] exception = "NoSuitableAutoBias" ->
           error_dialog(<<"No matching calibration file", "No bias or dark file of appropriate size">>)
      [] exception = "PermissionError" ->
           error_dialog(<<"Unable to write file", "permission error">>)
      [] OTHER -> [raised |-> exception, lines |-> <<>>]

\* run_combination_session, by the outcome of the try block and by what
\* thread_cancelled() answers: the exception that leaves it (or none), the
\* lines emitted and the emissions of `finished`
run_combination_session(try_block, thread_cancelled) ==
    LET starting == console_callback(Line("Starting session"))
        handled == IF try_block.raised = "none"
                   THEN [raised |-> "none", lines |-> <<>>]
                   ELSE except_clauses(try_block.raised)
    IN  IF handled.raised # "none"
        THEN [raised |-> handled.raised, lines |-> starting \o handled.lines, finished |-> 0]
        ELSE [raised |-> "none",
              lines |-> starting \o handled.lines \o
                        (IF thread_cancelled
                         THEN console_callback(Line("*** Session cancelled ***"))
                         ELSE <<>>),
              finished |-> 1]

RunCombinationSession ==
    /\ session_pc = "idle"
    /\ qthread = "running"
    /\ \E try_block \in TryBlockOutcomes, thread_cancelled \in BOOLEAN :
          LET run == run_combination_session(try_block, thread_cancelled)
          IN  /\ last_call' = "run_combination_session"
              /\ call_args' = try_block
              /\ cancel_flag' = thread_cancelled
              /\ result' = IF run.raised = "none" THEN Returned(<<>>) ELSE Raised(run.raised)
              /\ console_line' = console_line \o run.lines
              /\ emitted_lines' = emitted_lines \o run.lines
              /\ finished_emitted' = finished_emitted + run.finished
              /\ session_pc' = "session_ended"
    /\ UNCHANGED <<selected_files, data_model_vars, configuration_vars, file_data,
                   auto_directory_vars, console, session_settings_vars, main_window_vars, console_button_vars,
                   output_directory, pending_groups, current_group, session_log,
                   output_files, consoleList, signal_mutex, list_item>>

NextSession ==
    \/ ProcessGroupsStart
    \/ ProcessOneGroup
    \/ OriginalNonGroupedProcessing
    \/ CombineFiles
    \/ CancelThread

SpecSession == InitSession /\ [][NextSession]_vars

-----------------------------------------------------------------------------
(* Claims about the processing of a session *)

LogEvents(event) == SelectSeq(session_log, LAMBDA e : e.event = event)

LogHas(event) == \E i \in 1..Len(session_log) : session_log[i].event = event

\* the set is large enough for the combination method of the session
EnoughFilesForMethod(group) ==
    /\ master_combine_method = "COMBINE_MINMAX" =>
          Len(group) > 2 * min_max_number_clipped_per_end
    /\ master_combine_method = "COMBINE_SIGMA_CLIP" => Len(group) >= 3

\* C13: combination is never started on a set of files that is too small for
\* the method: more than 2n files with MinMaxClip(n), at least 3 files with
\* SigmaClip, in single-set processing and for each group of grouped
\* processing.
C13_CombinedSetsAreLargeEnough ==
    \A i \in 1..Len(session_log) :
        session_log[i].event = "combine_files" => EnoughFilesForMethod(session_log[i].group)

C15_NoGroupStartsAfterCancel ==
    last_call = "process_groups" =>
        \A i, j \in 1..Len(session_log) :
            (i < j /\ session_log[i].event = "cancel_requested") =>
                session_log[j].event # "started"

\* C18: grouped processing first ensures the output directory: when a file
\* that is no directory has its name, or when it does not exist and cannot be
\* created, the session fails with NoGroupOutputDirectory and no group is
\* processed; otherwise the directory exists before the first group is
\* processed.
C18_OutputDirectoryEnsuredFirst ==
    last_call = "process_groups" =>
        /\ output_directory \in { "file", "nothing_mkdir_fails" } =>
              /\ session_pc = "raised"
              /\ result = Raised("NoGroupOutputDirectory")
              /\ session_log = <<>>
              /\ output_files = <<>>
        /\ session_log # <<>> => output_directory = "directory"

HasOtherType(files) == \E i \in 1..Len(files) : files[i].type # "DARK"

SameSizes(files) ==
    \A i, j \in 1..Len(files) :
        /\ files[i].x = files[j].x
        /\ files[i].y = files[j].y
        /\ files[i].binning = files[j].binning

\* the set that was validated last went through the frame-type check
TypeChecked ==
    /\ last_call \in { "process_groups", "original_non_grouped_processing" }
    /\ current_group # <<>>
    /\ SameSizes(current_group)

\* the validation of the set validated last raised an exception
ValidationFailed ==
    /\ session_pc = "raised"
    /\ Len(session_log) >= 2
    /\ session_log[Len(session_log) - 1] = Event("started", current_group)
    /\ Last(session_log) = Event("failed", current_group)

\* C19: for a set of size-compatible frames, processing fails with
\* NotAllDarkFrames exactly when at least one frame's type is not DARK and
\* the ignore-type override is not set; with the override set
\* NotAllDarkFrames is never raised.
C19_NotAllDarkFramesExactlyWhen ==
    /\ TypeChecked =>
          ((HasOtherType(current_group) /\ ~ignore_file_type)
              <=> (ValidationFailed /\ result = Raised("NotAllDarkFrames")))
    /\ ignore_file_type => result.raised # "NotAllDarkFrames"

\* a group whose first frame is DARK and whose second is not fails the check
C19_Witness ==
    /\ last_call = "process_groups"
    /\ Len(current_group) >= 2
    /\ current_group[1].type = "DARK"
    /\ current_group[2].type # "DARK"
    /\ ~ignore_file_type
    /\ result = Raised("NotAllDarkFrames")

-----------------------------------------------------------------------------
(* The worker thread and the console window: the worker emits console_line  *)
(* signals, which Qt queues to the thread of the window and hands one by   *)
(* one, in the order of emission, to ConsoleWindow.add_to_console.          *)

MaxEmittedLines == 3

\* lines that the routines of a session give to console.message
ProgressLines == { Line("Processing"), Line("Combining") }

\* the mutant puts the item on top of the list
addItem_on_top(items, item) == <<item>> \o items

\* consoleList.addItem
addItem(items, item) == Append(items, item)

\* QListWidgetItem(message) of an execution of add_to_console
QListWidgetItem(message) == [message |-> message, added |-> FALSE]

InitWorker ==
    /\ selected_files \in { files \in SessionSelections : Len(files) = 1 }
    /\ group_by_size \in BOOLEAN
    /\ group_by_exposure \in BOOLEAN
    /\ group_by_temperature \in BOOLEAN
    /\ exposure_group_tolerance = 5
    /\ temperature_group_tolerance = 10
    /\ ConfigurationAtStart
    /\ file_data = <<>>
    /\ directory_files = <<>>
    /\ sample_file = BlankDescriptor
    /\ SessionSettingsAtStart
    /\ NothingCalled

UnchangedByConsole ==
    UNCHANGED <<selected_files, data_model_vars, configuration_vars, file_data,
                auto_directory_vars, console, last_call, call_args, result,
                session_settings_vars, main_window_vars, console_button_vars, session_vars>>

\* CombineThreadWorker.console_callback for a progress line of the session
ConsoleCallback ==
    /\ session_pc = "idle"
    /\ qthread = "running"
    /\ Len(emitted_lines) < MaxEmittedLines
    /\ \E message \in ProgressLines :
          /\ console_line' = console_line \o console_callback(message)
          /\ emitted_lines' = emitted_lines \o console_callback(message)
    /\ UNCHANGED <<consoleList, signal_mutex, list_item>>
    /\ UnchangedByConsole

\* ConsoleWindow.add_to_console, lines 109-112: the event loop of the window
\* hands over the oldest signal when no slot is running; the mutex is taken
AddToConsoleLock ==
    /\ console_line # <<>>
    /\ list_item = <<>>
    /\ signal_mutex = "free"
    /\ signal_mutex' = "locked"
    /\ list_item' = QListWidgetItem(Head(console_line))
    /\ console_line' = Tail(console_line)
    /\ UNCHANGED <<emitted_lines, consoleList>>
    /\ UnchangedByConsole

\* ConsoleWindow.add_to_console, lines 114-116
AddToConsoleAddItem ==
    /\ list_item # <<>>
    /\ ~list_item.added
    /\ consoleList' = addItem(consoleList, list_item.message)
    /\ list_item' = [list_item EXCEPT !.added = TRUE]
    /\ UNCHANGED <<console_line, emitted_lines, signal_mutex>>
    /\ UnchangedByConsole

\* ConsoleWindow.add_to_console, line 117
AddToConsoleUnlock ==
    /\ list_item # <<>>
    /\ list_item.added
    /\ signal_mutex' = "free"
    /\ list_item' = <<>>
    /\ UNCHANGED <<console_line, emitted_lines, consoleList>>
    /\ UnchangedByConsole

NextWorker ==
    \/ ConsoleCallback
    \/ RunCombinationSession
    \/ AddToConsoleLock
    \/ AddToConsoleAddItem
    \/ AddToConsoleUnlock

SpecWorker == InitWorker /\ [][NextWorker]_vars

-----------------------------------------------------------------------------
(* Claims about the worker and the console window *)

\* the exceptions of the error taxonomy as the code raises them; an empty
\* calibration directory raises AttributeError (C11)
TaxonomyExceptions ==
    { "FileNotFoundError", "IncompatibleSizes", "NotAllDarkFrames",
      "NoGroupOutputDirectory", "NoAutoCalibrationDirectory", "AttributeError",
      "NoSuitableAutoBias", "PermissionError" }

ErrorLinesEmitted == SelectSeq(emitted_lines, LAMBDA line : line.error)

CancelledLineEmitted ==
    \E i \in 1..Len(emitted_lines) : emitted_lines[i] = Line("*** Session cancelled ***")

\* C16: every error kind of the taxonomy raised during a session is caught by
\* run_combination_session, gives exactly one error line on the console and
\* does not leave the session.
C16_EveryKindCaughtAndReported ==
    (last_call = "run_combination_session" /\ call_args.raised \in TaxonomyExceptions) =>
        /\ result.raised = "none"
        /\ Len(ErrorLinesEmitted) = 1

\* C17: every run of run_combination_session ends in one outcome (a session
\* that reported an error reports no cancellation) and then emits `finished`
\* exactly once.
C17_OneOutcomeThenFinished ==
    last_call = "run_combination_session" =>
        /\ result.raised = "none"
        /\ finished_emitted = 1
        /\ ~(Len(ErrorLinesEmitted) > 0 /\ CancelledLineEmitted)

\* the line that the running execution of add_to_console has not yet added
LineBeingAdded ==
    IF list_item # <<>> /\ ~list_item.added THEN <<list_item.message>> ELSE <<>>

\* C20: executions of add_to_console never overlap (the mutex is held by the
\* one running execution and free otherwise), and the lines the worker
\* emitted are appended to the console list once each, in the order of
\* emission: the list, the line being added and the signals in flight are
\* together the lines emitted.
C20_ConsoleAccessSerialized ==
    /\ (signal_mutex = "locked") <=> (list_item # <<>>)
    /\ consoleList \o LineBeingAdded \o console_line = emitted_lines

\* two lines are on the list, a third is being added, a fourth is in flight
C20_Witness ==
    /\ Len(consoleList) = 2
    /\ consoleList[1] # consoleList[2]
    /\ signal_mutex = "locked"
    /\ LineBeingAdded # <<>>
    /\ console_line # <<>>

-----------------------------------------------------------------------------
(* MainWindow.enable_buttons: the Combine button and its tool tip, as the   *)
(* handlers of the main window leave them                                   *)

MaxSelectedRows == 3

\* (x, y, binning) of the frames of the table and of the calibration file
TableSizePool == { <<100, 100, 1>>, <<100, 100, 2>> }

\* Constants.CALIBRATION_NONE, _PEDESTAL, _FIXED_FILE, _AUTO_DIRECTORY
CalibrationTypes ==
    { "CALIBRATION_NONE", "CALIBRATION_PEDESTAL", "CALIBRATION_FIXED_FILE",
      "CALIBRATION_AUTO_DIRECTORY" }

\* get_selected_file_descriptors: the descriptors of the selected rows
TableSelections ==
    { MakeFiles(a) : a \in SeqsUpTo(TableSizePool \X {10} \X {0}, MaxSelectedRows) }

\* a FITS file at the path of the fixed calibration file
FitsFile(size) == [is_file |-> TRUE, size |-> size]

\* RmFitsUtil.make_file_descriptor of the fixed calibration file
make_calibration_descriptor(at_path) == FileDescriptor(0, at_path.size, 0, 0)

\* MainWindow.validate_file_dimensions: the fixed calibration file is checked
\* with the selected files, in a list of its own
MainWindow_validate_file_dimensions ==
    LET descriptors == selected_files
    IN  IF Len(descriptors) > 0
        THEN IF precalibration_type = "CALIBRATION_FIXED_FILE"
             THEN validate_file_dimensions(
                      Append(descriptors, make_calibration_descriptor(precalibration_fixed_path)))
             ELSE validate_file_dimensions(descriptors)
        ELSE TRUE

ToolTipEnabled == "Combined the selected files into a master bias"

\* the tool tip of line 452 reads self._precalibration_auto_directory, an
\* attribute MainWindow never sets: AttributeError, and lines 455-467 are not
\* reached
enable_buttons(button) ==
    LET combination_type == master_combine_method
        calibration_type == precalibration_type
        text_fields_valid == all_text_fields_valid
        num_selected == Len(selected_files)
        tip_text_fields ==
            IF ~text_fields_valid
            THEN "Disabled because of invalid text fields (shown in red)"
            ELSE ToolTipEnabled
        tip_selection ==
            IF num_selected = 0 THEN "Disabled because no files are selected"
            ELSE tip_text_fields
        sigma_clip_enough_files ==
            (combination_type # "COMBINE_SIGMA_CLIP") \/ num_selected >= 3
        tip_sigma_clip ==
            IF ~sigma_clip_enough_files
            THEN "Disabled because not enough files selected for sigma-clip method"
            ELSE tip_selection
        calibration_path_ok ==
            IF calibration_type = "CALIBRATION_FIXED_FILE"
            THEN precalibration_fixed_path.is_file
            ELSE TRUE
        tip_calibration_path ==
            IF ~calibration_path_ok
            THEN "Disabled because specified calibration file does not exist"
            ELSE tip_sigma_clip
        dimensions_ok ==
            IF calibration_path_ok
            THEN group_by_size \/ MainWindow_validate_file_dimensions
            ELSE TRUE
        tip_dimensions ==
            IF ~dimensions_ok
            THEN "Disabled because all files do not have the same dimensions and binning"
            ELSE tip_calibration_path
        calibration_directory_ok ==
            IF calibration_type = "CALIBRATION_AUTO_DIRECTORY"
            THEN precalibration_auto_directory.is_dir
            ELSE TRUE
    IN  IF ~calibration_directory_ok
        THEN [raised |-> "AttributeError", button |-> button]
        ELSE [raised |-> "none",
              button |-> [enabled |-> /\ text_fields_valid
                                      /\ num_selected > 0
                                      /\ min_max_enough_files(num_selected)
                                      /\ sigma_clip_enough_files
                                      /\ dimensions_ok
                                      /\ calibration_directory_ok
                                      /\ calibration_path_ok,
                          toolTip |-> tip_dimensions]]

\* the call of enable_buttons that ends a handler: it reads what the handler
\* has just set
EnableButtons ==
    /\ last_call' = "enable_buttons"
    /\ call_args' = <<>>
    /\ \E button \in { combineSelectedButton } :
          /\ combineSelectedButton' = enable_buttons(button)'.button
          /\ result' = IF enable_buttons(button)'.raised = "none"
                       THEN Returned(<<>>)
                       ELSE Raised(enable_buttons(button)'.raised)

InitMainWindow ==
    /\ selected_files = <<>>
    /\ group_by_size = FALSE /\ group_by_exposure = FALSE /\ group_by_temperature = FALSE
    /\ exposure_group_tolerance = 5
    /\ temperature_group_tolerance = 10
    /\ ConfigurationAtStart
    /\ file_data = <<>>
    /\ directory_files = <<>>
    /\ sample_file = BlankDescriptor
    /\ SessionSettingsAtStart
    /\ NothingCalled

UnchangedByMainWindow ==
    UNCHANGED <<group_by_exposure, group_by_temperature, exposure_group_tolerance,
                temperature_group_tolerance, configuration_vars, file_data,
                auto_directory_vars, console, ignore_file_type,
                min_max_number_clipped_per_end, output_directory, session_vars,
                console_window_vars, console_button_vars>>

\* MainWindow.table_selection_changed
TableSelectionChanged ==
    /\ selected_files' \in TableSelections
    /\ UNCHANGED <<group_by_size, master_combine_method, precalibration_type,
                   precalibration_fixed_path, precalibration_auto_directory>>
    /\ UnchangedByMainWindow
    /\ EnableButtons

\* MainWindow.algorithm_button_clicked
AlgorithmButtonClicked ==
    /\ master_combine_method' \in CombineMethods
    /\ UNCHANGED <<selected_files, group_by_size, precalibration_type,
                   precalibration_fixed_path, precalibration_auto_directory>>
    /\ UnchangedByMainWindow
    /\ EnableButtons

\* MainWindow.group_by_size_clicked
GroupBySizeClicked ==
    /\ group_by_size' \in BOOLEAN
    /\ UNCHANGED <<selected_files, master_combine_method, precalibration_type,
                   precalibration_fixed_path, precalibration_auto_directory>>
    /\ UnchangedByMainWindow
    /\ EnableButtons

\* MainWindow.precalibration_radio_group_clicked
PrecalibrationRadioGroupClicked ==
    /\ precalibration_type' \in CalibrationTypes
    /\ UNCHANGED <<selected_files, group_by_size, master_combine_method,
                   precalibration_fixed_path, precalibration_auto_directory>>
    /\ UnchangedByMainWindow
    /\ EnableButtons

\* MainWindow.select_precalibration_file_clicked: the dialog gives the path of
\* a file, or nothing
SelectPrecalibrationFileClicked ==
    /\ \/ \E size \in TableSizePool : precalibration_fixed_path' = FitsFile(size)
       \/ UNCHANGED precalibration_fixed_path
    /\ UNCHANGED <<selected_files, group_by_size, master_combine_method,
                   precalibration_type, precalibration_auto_directory>>
    /\ UnchangedByMainWindow
    /\ EnableButtons

\* MainWindow.select_auto_calibration_directory_clicked: the dialog gives the
\* path of a directory, or nothing
SelectAutoCalibrationDirectoryClicked ==
    /\ \/ precalibration_auto_directory' = [is_dir |-> TRUE]
       \/ UNCHANGED precalibration_auto_directory
    /\ UNCHANGED <<selected_files, group_by_size, master_combine_method,
                   precalibration_type, precalibration_fixed_path>>
    /\ UnchangedByMainWindow
    /\ EnableButtons

\* the tolerance fields are validated by handlers that do not call
\* enable_buttons (lines 301-319)
NextMainWindow ==
    \/ TableSelectionChanged
    \/ AlgorithmButtonClicked
    \/ GroupBySizeClicked
    \/ PrecalibrationRadioGroupClicked
    \/ SelectPrecalibrationFileClicked
    \/ SelectAutoCalibrationDirectoryClicked
    \/ ExposureGroupToleranceChanged

SpecMainWindow == InitMainWindow /\ [][NextMainWindow]_vars

-----------------------------------------------------------------------------
(* Claims about the Combine button *)

\* the selected files, and the fixed calibration file when it is in use,
\* have one (width, height, binning)
OneSizeWithCalibrationFile ==
    /\ SameSizes(selected_files)
    /\ (precalibration_type = "CALIBRATION_FIXED_FILE" /\ selected_files # <<>>) =>
          get_size_key(selected_files[1]) = precalibration_fixed_path.size

\* the conditions under which the Combine button is to be enabled
CombineAllowed ==
    /\ field_validity.exposureGroupTolerance # "invalid"
    /\ field_validity.temperatureGroupTolerance # "invalid"
    /\ Len(selected_files) >= 1
    /\ master_combine_method = "COMBINE_MINMAX" =>
          Len(selected_files) > 2 * min_max_number_clipped_per_end
    /\ master_combine_method = "COMBINE_SIGMA_CLIP" => Len(selected_files) >= 3
    /\ precalibration_type = "CALIBRATION_FIXED_FILE" => precalibration_fixed_path.is_file
    /\ precalibration_type = "CALIBRATION_AUTO_DIRECTORY" =>
          precalibration_auto_directory.is_dir
    /\ ~group_by_size => OneSizeWithCalibrationFile

\* C21: after every call of enable_buttons the Combine button is enabled
\* exactly when no text field is in error, a row is selected, the selection
\* is large enough for the method, the calibration file or directory in use
\* exists, and the selected files (with the fixed calibration file) have one
\* size and binning unless the files are grouped by size.
C21_CombineEnabledExactlyWhen ==
    last_call = "enable_buttons" => (combineSelectedButton.enabled <=> CombineAllowed)

\* C25: when enable_buttons leaves the Combine button disabled, the tool tip
\* it sets is not the text of the enabled button: it gives a reason.
C25_DisabledButtonSaysWhy ==
    (last_call = "enable_buttons" /\ result.raised = "none"
        /\ ~combineSelectedButton.enabled) =>
            combineSelectedButton.toolTip # ToolTipEnabled

-----------------------------------------------------------------------------
(* FileCombiner.validate_file_dimensions on a list of its caller            *)

\* what can be at the path of the fixed calibration file
FixedPaths ==
    { [is_file |-> FALSE, size |-> <<0, 0, 0>>] } \cup { FitsFile(size) : size \in TableSizePool }

\* FileCombiner.validate_file_dimensions(descriptors, data_model): the answer
\* and the list of the caller after the call; `descriptors` is the caller's
\* list itself, and line 168 appends the calibration descriptor to it
FileCombiner_validate_file_dimensions(descriptors) ==
    IF Len(descriptors) > 0
    THEN IF precalibration_type = "CALIBRATION_FIXED_FILE"
         THEN IF ~precalibration_fixed_path.is_file
              THEN [outcome |-> Raised("FileNotFoundError"), descriptors |-> descriptors]
              ELSE LET appended ==
                           Append(descriptors,
                                  make_calibration_descriptor(precalibration_fixed_path))
                   IN  [outcome |-> Returned(validate_file_dimensions(appended)),
                        descriptors |-> appended]
         ELSE [outcome |-> Returned(validate_file_dimensions(descriptors)),
               descriptors |-> descriptors]
    ELSE [outcome |-> Returned(TRUE), descriptors |-> descriptors]

InitValidateDimensions ==
    /\ selected_files \in TableSelections
    /\ group_by_size = FALSE /\ group_by_exposure = FALSE /\ group_by_temperature = FALSE
    /\ exposure_group_tolerance = 5
    /\ temperature_group_tolerance = 10
    /\ ConfigurationAtStart
    /\ file_data = <<>>
    /\ directory_files = <<>>
    /\ sample_file = BlankDescriptor
    /\ SessionSettingsAtStart
    /\ console = <<>>
    /\ last_call = "none"
    /\ call_args = <<>>
    /\ result = Returned(<<>>)
    /\ NoSession
    /\ ConsoleWindowAtStart
    /\ precalibration_type \in CalibrationTypes
    /\ precalibration_fixed_path \in FixedPaths
    /\ precalibration_auto_directory = [is_dir |-> FALSE]
    /\ combineSelectedButton = [enabled |-> FALSE, toolTip |-> ToolTipEnabled]
    /\ ConsoleButtonsAtStart

\* a caller validates its list, and may validate it again
ValidateFileDimensions ==
    /\ Len(selected_files) <= MaxSelectedRows
    /\ LET call == FileCombiner_validate_file_dimensions(selected_files)
       IN  /\ last_call' = "validate_file_dimensions"
           /\ call_args' = selected_files
           /\ result' = call.outcome
           /\ selected_files' = call.descriptors
    /\ UNCHANGED <<data_model_vars, configuration_vars, file_data, auto_directory_vars,
                   console, session_settings_vars, main_window_vars, console_button_vars,
                   session_vars, console_window_vars>>

NextValidateDimensions == ValidateFileDimensions

SpecValidateDimensions == InitValidateDimensions /\ [][NextValidateDimensions]_vars

\* C28: FileCombiner.validate_file_dimensions only checks: whatever the list
\* and the precalibration type, the list of the caller has the same members
\* after the call as before it, and no calibration descriptor is added to the
\* files to combine.
C28_ValidationLeavesTheListAlone ==
    last_call = "validate_file_dimensions" => selected_files = call_args

-----------------------------------------------------------------------------
(* The combination engine (ImageMath), as FileCombiner.combine_files calls  *)
(* it: the mean and the min/max-clipped mean of a stack of arrays of one    *)
(* size.  A mean is the exact quotient of a sum and a count.                *)

MaxCombined == 3

\* pixel values of the frames to combine
CombinedPixelPool == { 5, 6, 65535 }

CombinedShapePool == { <<1, 1>>, <<2, 1>> }

\* the stacks of one to MaxCombined arrays of one shape
CombinedStacks ==
    UNION { { stack \in SeqsUpTo({ [shape |-> sh, data |-> d] :
                                     d \in [1..(sh[1] * sh[2]) -> CombinedPixelPool] },
                                 MaxCombined) : stack # <<>> } :
            sh \in CombinedShapePool }

\* the numbers of values that Min/Max clipping drops at each end
DroppedPool == { 0, 1 }

RECURSIVE SumOf(_)
SumOf(values) == IF values = <<>> THEN 0 ELSE Head(values) + SumOf(Tail(values))

\* the arithmetic mean of a sequence of numbers, as a quotient
MeanOf(values) == [sum |-> SumOf(values), count |-> Len(values)]

\* the values of the stack at one pixel position, in the order of the stack
column(stack, position) == [layer \in 1..Len(stack) |-> stack[layer].data[position]]

RECURSIVE InsertAscending(_, _)
InsertAscending(values, v) ==
    IF values = <<>> THEN <<v>>
    ELSE IF v < Head(values) THEN <<v>> \o values
         ELSE <<Head(values)>> \o InsertAscending(Tail(values), v)

\* the values in ascending order
RECURSIVE sort_ascending(_)
sort_ascending(values) ==
    IF values = <<>> THEN <<>>
    ELSE InsertAscending(sort_ascending(Front(values)), Last(values))

\* the mutant drops one value more at the high end
drop_ends_one_more(ascending, number_dropped_points) ==
    SubSeq(ascending, number_dropped_points + 1,
           Len(ascending) - number_dropped_points - 1)

\* the lowest and the highest number_dropped_points values are dropped
drop_ends(ascending, number_dropped_points) ==
    SubSeq(ascending, number_dropped_points + 1, Len(ascending) - number_dropped_points)

\* ImageMath.combine_mean: the mean across the stack at every pixel position
combine_mean(stack) ==
    [shape |-> stack[1].shape,
     data |-> [position \in DOMAIN stack[1].data |-> MeanOf(column(stack, position))]]

\* ImageMath.combine_min_max_clip: at every pixel position the values are
\* sorted, the ends dropped and the rest averaged
combine_min_max_clip(stack, number_dropped_points) ==
    [shape |-> stack[1].shape,
     data |-> [position \in DOMAIN stack[1].data |->
                  MeanOf(drop_ends(sort_ascending(column(stack, position)),
                                   number_dropped_points))]]

InitCombination ==
    /\ selected_files = <<>>
    /\ group_by_size = FALSE /\ group_by_exposure = FALSE /\ group_by_temperature = FALSE
    /\ exposure_group_tolerance = 5
    /\ temperature_group_tolerance = 10
    /\ ConfigurationAtStart
    /\ file_data \in CombinedStacks
    /\ directory_files = <<>>
    /\ sample_file = BlankDescriptor
    /\ SessionSettingsAtStart
    /\ NothingCalled

\* FileCombiner.combine_files, lines 275-276
CombineMean ==
    /\ last_call' = "combine_mean"
    /\ call_args' = <<>>
    /\ result' = Returned(combine_mean(file_data))
    /\ UnchangedByCalibration

\* FileCombiner.combine_files, lines 289-292; the caller gives more than
\* 2 * number_dropped_points frames
CombineMinMaxClip ==
    \E number_dropped_points \in DroppedPool :
        /\ Len(file_data) > 2 * number_dropped_points
        /\ last_call' = "combine_min_max_clip"
        /\ call_args' = number_dropped_points
        /\ result' = Returned(combine_min_max_clip(file_data, number_dropped_points))
        /\ UnchangedByCalibration

NextCombination ==
    \/ CombineMean
    \/ CombineMinMaxClip

SpecCombination == InitCombination /\ [][NextCombination]_vars

\* two quotients are the same number
SameQuotient(p, q) ==
    /\ p.count > 0
    /\ q.count > 0
    /\ p.sum * q.count = q.sum * p.count

\* C22: on every non-empty stack of arrays of one size, the min/max-clipped
\* mean with 0 values dropped per end is, at every pixel position, the value
\* of the mean of the same stack.
C22_MinMaxClipZeroIsMean ==
    (last_call = "combine_min_max_clip" /\ call_args = 0) =>
        /\ result.raised = "none"
        /\ result.value.shape = combine_mean(file_data).shape
        /\ DOMAIN result.value.data = DOMAIN file_data[1].data
        /\ \A position \in DOMAIN file_data[1].data :
              /\ SameQuotient(result.value.data[position],
                              combine_mean(file_data).data[position])
              /\ result.value.data[position].sum * Len(file_data) =
                    SumOf(column(file_data, position)) * result.value.data[position].count

\* three frames whose values at a pixel are not in ascending order, combined
\* with nothing dropped
C22_Witness ==
    /\ last_call = "combine_min_max_clip"
    /\ call_args = 0
    /\ Len(file_data) = 3
    /\ file_data[1].data[1] > file_data[2].data[1]
    /\ file_data[2].data[1] < file_data[3].data[1]
    /\ result.value.data[1].count = 3

-----------------------------------------------------------------------------
(* Single-set processing of any selection                                   *)

\* original_non_grouped_processing is handed a non-empty selection and
\* validates it itself, whatever the Combine button has checked
InitSingleSet ==
    /\ selected_files \in { files \in SessionSelections : Len(files) > 0 }
    /\ group_by_size = FALSE /\ group_by_exposure = FALSE /\ group_by_temperature = FALSE
    /\ exposure_group_tolerance = 5
    /\ temperature_group_tolerance = 10
    /\ ConfigurationAtStart
    /\ file_data = <<>>
    /\ directory_files = <<>>
    /\ sample_file = BlankDescriptor
    /\ ignore_file_type \in BOOLEAN
    /\ master_combine_method \in CombineMethods
    /\ min_max_number_clipped_per_end = 1
    /\ output_directory = "directory"
    /\ NothingCalled

NextSingleSet ==
    \/ OriginalNonGroupedProcessing
    \/ CombineFiles

SpecSingleSet == InitSingleSet /\ [][NextSingleSet]_vars

\* the session failed with the exception and nothing was calibrated,
\* combined or written
FailedBeforeCombining(exception) ==
    /\ session_pc = "raised"
    /\ result = Raised(exception)
    /\ ~LogHas("combine_files")
    /\ ~LogHas("combined")
    /\ ~LogHas("written")
    /\ output_files = <<>>

\* C23: single-set processing validates before it produces anything: files
\* that do not share dimensions and binning fail with IncompatibleSizes,
\* files that are not all DARK (override off) fail with NotAllDarkFrames,
\* neither case calibrates, combines or writes, and with both defects the
\* size failure is reported.
C23_SingleSetValidatesFirst ==
    last_call = "original_non_grouped_processing" =>
        /\ ~SameSizes(selected_files) => FailedBeforeCombining("IncompatibleSizes")
        /\ (SameSizes(selected_files) /\ HasOtherType(selected_files) /\ ~ignore_file_type) =>
              FailedBeforeCombining("NotAllDarkFrames")

\* a selection with both defects: two sizes, a frame that is not DARK, no override
C23_Witness ==
    /\ last_call = "original_non_grouped_processing"
    /\ ~SameSizes(selected_files)
    /\ HasOtherType(selected_files)
    /\ ~ignore_file_type
    /\ result = Raised("IncompatibleSizes")

-----------------------------------------------------------------------------
(* Claims about the groups of a session grouped by size *)

\* C24: with size grouping on, the size check of grouped processing never
\* fails: every group handed to process_one_group holds frames of one
\* (width, height, binning), and no validation raises IncompatibleSizes; a
\* selection of several sizes is processed group by group.
C24_SizeGroupsPassTheSizeCheck ==
    (last_call = "process_groups" /\ group_by_size) =>
        /\ \A k \in 1..Len(pending_groups) : SameSizes(pending_groups[k])
        /\ SameSizes(current_group)
        /\ \A i \in 1..Len(session_log) : SameSizes(session_log[i].group)
        /\ ValidationFailed => result # Raised("IncompatibleSizes")

\* a selection of two sizes, and the groups of both sizes were written
C24_Witness ==
    /\ last_call = "process_groups"
    /\ group_by_size
    /\ ~SameSizes(selected_files)
    /\ Len(output_files) >= 2
    /\ session_pc = "returned"

-----------------------------------------------------------------------------
(* Claims about the groups of the stages *)

\* the groups that the last call of the engine formed
GroupsFormed ==
    /\ \/ EngineCall
       \/ GroupingDone
    /\ selected_files # <<>>

\* C26: for a non-empty selection and tolerances in [0, 1), every group that
\* a stage of process_groups forms (size, exposure, temperature) is
\* non-empty: size_group[0] and the assertion len(descriptor_list) > 0 of
\* process_one_group never fail.
C26_NoStageFormsAnEmptyGroup ==
    GroupsFormed =>
        /\ result.raised = "none"
        /\ Len(result.value) >= 1
        /\ \A k \in 1..Len(result.value) : Len(result.value[k]) >= 1

\* tolerance 0 and a first frame whose value is not 0: the quotient 0 is
\* within the tolerance, and the frame opens the first group
C26_Witness ==
    /\ last_call = "get_groups_by_exposure"
    /\ group_by_exposure
    /\ exposure_group_tolerance = 0
    /\ Len(selected_files) >= 2
    /\ \A i \in 1..Len(selected_files) : selected_files[i].exposure # 0
    /\ Len(result.value) >= 2

\* C30: the groups of an enabled tolerance stage are consecutive runs of the
\* ascending order: inside a group the values ascend, every value of a group
\* is <= every value of each later group, and the first member of a group
\* has the least value of the group and is the base every member was found
\* same-within-tolerance to.
C30_GroupsAreRunsOfAscendingOrder ==
    (ToleranceStage /\ result.raised = "none") =>
        LET G == result.value
            v(d) == KeyOf(d, StageKey)
        IN  /\ \A k \in 1..Len(G) : \A i, j \in 1..Len(G[k]) :
                  i < j => v(G[k][i]) <= v(G[k][j])
            /\ \A k, l \in 1..Len(G) : \A i \in 1..Len(G[k]), j \in 1..Len(G[l]) :
                  k < l => v(G[k][i]) <= v(G[l][j])
            /\ \A k \in 1..Len(G) : \A i \in 1..Len(G[k]) :
                  /\ v(G[k][1]) <= v(G[k][i])
                  /\ SameWithinTolerance(v(G[k][1]), v(G[k][i]), StageTolerance)

\* three frames handed over in descending order form two groups, one of them
\* of two frames
C30_Witness ==
    /\ ToleranceStage /\ result.raised = "none"
    /\ Len(selected_files) = 3
    /\ KeyOf(selected_files[1], StageKey) > KeyOf(selected_files[2], StageKey)
    /\ KeyOf(selected_files[2], StageKey) > KeyOf(selected_files[3], StageKey)
    /\ Len(result.value) = 2

-----------------------------------------------------------------------------
(* Claims about the stack of the caller of the calibrator *)

\* C27: calibration does not change the stack of its caller: after
\* calibrate_with_pedestal or calibrate_with_file returns, and after
\* calibrate_with_file fails with IncompatibleSizes part-way through the
\* stack, the list of the caller has the length and holds the arrays, pixel
\* for pixel, that it had before the call.
C27_CalibrationLeavesTheStackAlone ==
    [][file_data' = file_data]_vars

\* the first array of the stack was calibrated to other pixel values, and the
\* second did not fit the reference
C27_Witness ==
    /\ ReferenceLoaded
    /\ Len(file_data) = 2
    /\ file_data[1].shape = call_args.image.shape
    /\ clip(minus_array(file_data[1], call_args.image), 0, 65535) # file_data[1]
    /\ file_data[2].shape # call_args.image.shape
    /\ result.raised = "IncompatibleSizes"

-----------------------------------------------------------------------------
(* ConsoleWindow: the worker thread and the Cancel and Close buttons        *)

\* the mutant leaves the Close button enabled whatever the state
buttons_active_state_close_stays(active) ==
    [cancelButton |-> active, closeButton |-> TRUE]

\* ConsoleWindow.buttons_active_state
buttons_active_state(active) ==
    [cancelButton |-> active, closeButton |-> ~active]

\* CombineThreadWorker(...) on line 29: the constructor of src/ takes four
\* arguments and is given one, which raises TypeError; the other outcome is
\* that of a call the constructor takes
WorkerConstructions == { "constructed", "TypeError" }

\* the window before __init__ sets its buttons: they are as ConsoleWindow.ui
\* makes them
InitConsoleWindow ==
    /\ selected_files \in { files \in SessionSelections : Len(files) = 1 }
    /\ group_by_size = FALSE /\ group_by_exposure = FALSE /\ group_by_temperature = FALSE
    /\ exposure_group_tolerance = 5
    /\ temperature_group_tolerance = 10
    /\ ConfigurationAtStart
    /\ file_data = <<>>
    /\ directory_files = <<>>
    /\ sample_file = BlankDescriptor
    /\ SessionSettingsAtStart
    /\ console = <<>>
    /\ last_call = "none"
    /\ call_args = <<>>
    /\ result = Returned(<<>>)
    /\ NoSession
    /\ ConsoleWindowAtStart
    /\ MainWindowAtStart
    /\ qthread = "ui_loaded"
    /\ cancelButton \in BOOLEAN
    /\ closeButton \in BOOLEAN

UnchangedByButtons ==
    UNCHANGED <<selected_files, data_model_vars, configuration_vars, file_data,
                auto_directory_vars, console, last_call, call_args, result,
                session_settings_vars, main_window_vars, session_vars, console_window_vars>>

\* ConsoleWindow.__init__, lines 25-49: the buttons are set inactive, the
\* worker and its thread are made and connected, the buttons are set active
\* and the thread is started
ConsoleWindowInit ==
    /\ qthread = "ui_loaded"
    /\ \E worker \in WorkerConstructions :
          LET buttons == IF worker = "TypeError"
                         THEN buttons_active_state(FALSE)
                         ELSE buttons_active_state(TRUE)
          IN  /\ cancelButton' = buttons.cancelButton
              /\ closeButton' = buttons.closeButton
              /\ qthread' = IF worker = "TypeError" THEN "init_raised" ELSE "running"
    /\ UnchangedByButtons

\* the worker's `finished` reaches QThread.quit (line 39): the event loop of
\* the thread ends and the thread emits its own `finished`
QThreadQuit ==
    /\ qthread = "running"
    /\ finished_emitted >= 1
    /\ qthread' = "quit"
    /\ UNCHANGED <<cancelButton, closeButton>>
    /\ UnchangedByButtons

\* ConsoleWindow.worker_thread_finished, the slot of QThread.finished (line 42)
WorkerThreadFinished ==
    /\ qthread = "quit"
    /\ LET buttons == buttons_active_state(FALSE)
       IN  /\ cancelButton' = buttons.cancelButton
           /\ closeButton' = buttons.closeButton
    /\ qthread' = "finished"
    /\ UnchangedByButtons

NextConsoleWindow ==
    \/ ConsoleWindowInit
    \/ RunCombinationSession
    \/ AddToConsoleLock
    \/ AddToConsoleAddItem
    \/ AddToConsoleUnlock
    \/ QThreadQuit
    \/ WorkerThreadFinished

\* the event loops of Qt hand over every queued signal
SpecConsoleWindow ==
    /\ InitConsoleWindow
    /\ [][NextConsoleWindow]_vars
    /\ WF_vars(QThreadQuit)
    /\ WF_vars(WorkerThreadFinished)

\* the worker thread was started and worker_thread_finished has not run
WorkerThreadLives == qthread \in { "running", "quit" }

\* C29: once __init__ has set them, exactly one of the Cancel and Close
\* buttons is enabled; Cancel is the enabled one from the start of the worker
\* thread until worker_thread_finished; and after the worker has emitted
\* `finished`, Cancel is eventually disabled and Close enabled.
C29_CancelWhileRunningCloseAfter ==
    /\ [](qthread # "ui_loaded" => (cancelButton <=> ~closeButton))
    /\ [](WorkerThreadLives => cancelButton)
    /\ [](qthread \in { "init_raised", "finished" } => closeButton)
    /\ (finished_emitted >= 1) ~> (~cancelButton /\ closeButton)

\* the worker emitted `finished` and worker_thread_finished has run
C29_Witness ==
    /\ qthread = "finished"
    /\ finished_emitted = 1
    /\ ~cancelButton
    /\ closeButton

=============================================================================
